---- MODULE Spec2Model ----
(***************************************************************************)
(* Model of modules/Tunnel.js: Guacamole.Tunnel (base), HTTPTunnel,        *)
(* WebSocketTunnel, StaticHTTPTunnel and ChainedTunnel.                    *)
(*                                                                         *)
(* Specification Spec runs ONE tunnel instance whose implementation        *)
(* (HTTP, WebSocket or static) is chosen in Init.  Every handler of the    *)
(* source is an operator from tunnel record to tunnel record, so that a    *)
(* handler that calls another handler is the composition of the two; an    *)
(* action applies one handler to the current state.  An HTTPTunnel or      *)
(* WebSocketTunnel is followed through one connect(): from the call to     *)
(* the last event of the requests and the socket that call created.        *)
(*                                                                         *)
(* Specification SpecChain runs one ChainedTunnel over NumTunnels tunnels, *)
(* which it sees through the Guacamole.Tunnel interface: state, uuid, the  *)
(* four callback slots, connect() and disconnect().                        *)
(*                                                                         *)
(* Time is counted in ticks.  A timer holds the ticks left before it is    *)
(* due (-1: not pending); a due timer fires before time advances further.  *)
(* The 30ms response poll is shorter than one tick: once a tick has        *)
(* passed with the poll interval active, the poll fires before any timer   *)
(* does and before the next tick.                                          *)
(***************************************************************************)
EXTENDS Integers, Sequences, FiniteSets, TLC

\* ------------------------------------------------------------------ bounds

\* tunnel.receiveTimeout and tunnel.unstableThreshold, in ticks
ReceiveTimeout == 2
UnstableThreshold == 1
\* messages that may wait in outputMessageBuffer
MaxBuf == 1
\* write requests in flight
MaxWrites == 2
\* read requests issued by makeRequest
MaxReq == 3
\* instructions, the end marker included, in one read response
MaxText == 2
\* characters in one WebSocket frame
MaxFrame == 5
\* elements the onmessage loop may hold before it is left alone
MaxElements == 4
\* characters in an element given to sendMessage, and arguments after the opcode
MaxStr == 2
MaxArgs == 1
\* instructions in the recording a StaticHTTPTunnel downloads
MaxStatic == 3
\* tunnels given to the ChainedTunnel constructor
NumTunnels == 2

\* --------------------------------------------------------------- constants

NoUUID == "null"
UUIDs == {"u1"}

\* Guacamole.Status.Code values the handlers distinguish
ErrorCodes == {"UPSTREAM_TIMEOUT", "RESOURCE_NOT_FOUND", "UPSTREAM_NOT_FOUND", "SERVER_ERROR"}
StatusCodes == ErrorCodes \cup {"SUCCESS"}

\* What one look at a read response finds since the previous look:
\* complete instructions ("instr") and the zero-length end marker ("end").
Chunks == {<<>>, <<"instr">>, <<"end">>, <<"instr", "end">>, <<"instr", "instr">>}

\* Instructions a WebSocket frame may carry: opcode and first argument.
WsInstructions ==
    { [opcode |-> "", arg |-> "u1"],
      [opcode |-> "", arg |-> "ping"],
      [opcode |-> "sync", arg |-> "0"],
      [opcode |-> "reauth", arg |-> "0"],
      [opcode |-> "getCredentials", arg |-> "0"] }
WsFrames == { <<i>> : i \in WsInstructions }
              \cup { <<i, j>> : i \in WsInstructions, j \in WsInstructions }

VARIABLES
    kind,     \* which constructor built the instance: "http", "ws", "static"
    tunnel,   \* the public fields of Guacamole.Tunnel: state, uuid
    priv,     \* the private variables of the implementation's closure
    obs,      \* the last operation, its input, the callbacks it fired, whether it
              \* threw, the bodies of the write requests it issued
    clock,    \* ticks since data was last received; poll owed; OPEN ever reached;
              \* a WebSocket frame has been received
    chain,    \* a ChainedTunnel and the tunnels given to its constructor
    cobs,     \* the chain's last operation and the callbacks of the chain it fired
    nest,     \* a ChainedTunnel whose first tunnel is itself a ChainedTunnel
    nobs,     \* the last operation on it and the application callbacks it fired
    rd,       \* the read requests of an OPEN HTTPTunnel and their handlers
    robs,     \* the last read event and the instructions it delivered
    fr,       \* a WebSocketTunnel inside onmessage: the frame and the parse loop
    fobs,     \* the callbacks of the last iteration of that loop
    hp        \* an HTTPTunnel response as text and its parseResponse() variables

tvars == <<kind, tunnel, priv, obs, clock>>
cvars == <<chain, cobs>>
nvars == <<nest, nobs>>
rvars == <<rd, robs>>
pvars == <<fr, fobs, hp>>
vars == <<kind, tunnel, priv, obs, clock, chain, cobs, nest, nobs, rd, robs,
          fr, fobs, hp>>

PubFields == {"state", "uuid"}
PrivFields ==
    { "recvT", "unstT", "ping",
      "hs", "token", "sending", "outBuf", "writes", "polling", "request_id",
      "hdl", "rs", "st", "ivSet", "ivOn", "nextReq", "due",
      "socket", "reloaded", "xhr", "xrs", "xtext", "offset" }

Pick(r, S) == [f \in S |-> r[f]]

\* The tunnel as one record: what a handler reads and writes.
Cur ==
    tunnel @@ priv @@ [events |-> <<>>, threw |-> FALSE, bodies |-> <<>>,
                       everOpen |-> clock.everOpen, fed |-> clock.fed]

\* ----------------------------------------------------- text, as JavaScript
\* A string is a sequence of characters; positions count from 0 as in the
\* code.  A number is an integer from -1 up; the values below stand for
\* what is not a number.

NotFound == -1      \* what indexOf() returns when it finds nothing
Undefined == -2     \* the value of a variable never assigned
NaN == -3

Min(a, b) == IF a < b THEN a ELSE b
Max(a, b) == IF a < b THEN b ELSE a

\* x + 1 and a + b
Add1(x) == IF x < -1 THEN NaN ELSE x + 1
Plus(a, b) == IF a < -1 \/ b < -1 THEN NaN ELSE a + b

\* a < b and a >= b: false when one of them is not a number
Less(a, b) == a >= -1 /\ b >= -1 /\ a < b
AtLeast(a, b) == a >= -1 /\ b >= -1 /\ a >= b

\* an argument of substring() or indexOf(): NaN is 0, the rest is clamped
ClampIndex(x, n) == IF x < 0 THEN 0 ELSE Min(x, n)

\* m.substring(a, b): an undefined b is the length; the arguments are swapped
\* when the first is the larger
Substring(m, a, b) ==
    LET n  == Len(m)
        a1 == ClampIndex(a, n)
        b1 == IF b = Undefined THEN n ELSE ClampIndex(b, n)
    IN  SubSeq(m, Min(a1, b1) + 1, Max(a1, b1))

\* m.indexOf(c, from)
IndexOf(m, c, from) ==
    LET hits == {k \in ClampIndex(from, Len(m))..(Len(m) - 1) : m[k + 1] = c}
    IN  IF hits = {} THEN NotFound ELSE CHOOSE k \in hits : \A j \in hits : k <= j

Digits == {"0", "1", "2", "3", "4", "5", "6", "7", "8", "9"}

DigitValue(c) ==
    CASE c = "0" -> 0 [] c = "1" -> 1 [] c = "2" -> 2 [] c = "3" -> 3 [] c = "4" -> 4
      [] c = "5" -> 5 [] c = "6" -> 6 [] c = "7" -> 7 [] c = "8" -> 8 [] OTHER -> 9

\* parseInt(s): the value of the longest prefix of digits, NaN without one
RECURSIVE ParseDigits(_, _)
ParseDigits(s, acc) ==
    IF s = <<>> \/ Head(s) \notin Digits THEN acc
    ELSE ParseDigits(Tail(s), 10 * acc + DigitValue(Head(s)))

ParseInt(s) ==
    IF s = <<>> \/ Head(s) \notin Digits THEN NaN ELSE ParseDigits(s, 0)

\* ------------------------------------------------------------ Guacamole.Tunnel

Emit(t, e) == [t EXCEPT !.events = Append(@, e)]

SetState(t, s) ==
    IF s # t.state
    THEN Emit([t EXCEPT !.state = s,
                        !.everOpen = @ \/ s = "OPEN"], <<"onstatechange", s>>)
    ELSE t

SetUUID(t, u) == Emit([t EXCEPT !.uuid = u], <<"onuuid", u>>)

IsConnected(t) == t.state \in {"OPEN", "UNSTABLE"}

\* ------------------------------------------------------------------ HTTPTunnel

HttpResetTimeout(t) ==
    LET t1 == IF t.state = "UNSTABLE" THEN SetState(t, "OPEN") ELSE t
    IN  [t1 EXCEPT !.recvT = ReceiveTimeout, !.unstT = UnstableThreshold]

HttpCloseTunnel(t, code) ==
    LET t1 == [t EXCEPT !.recvT = -1, !.unstT = -1, !.ping = FALSE]
        t2 == IF code # "SUCCESS"
                 /\ (t1.state = "CONNECTING" \/ code # "RESOURCE_NOT_FOUND")
              THEN Emit(t1, <<"onerror", code>>)
              ELSE t1
    IN  IF t.state = "CLOSED"
        THEN t1
        ELSE SetState([t2 EXCEPT !.sending = FALSE], "CLOSED")

HttpDisconnect(t) == HttpCloseTunnel(t, "SUCCESS")

\* The status is the Guacamole-Status-Code header when the server sent one,
\* else fromHTTPCode(status), else UPSTREAM_NOT_FOUND: some error code.
HandleHTTPTunnelError(t, code) == HttpCloseTunnel(t, code)

\* sendPendingMessages() never clearing outputMessageBuffer
SendPendingMessagesKeepBuffer(t) ==
    IF ~IsConnected(t) THEN t
    ELSE IF Len(t.outBuf) > 0
         THEN [t EXCEPT !.sending = TRUE, !.writes = @ + 1,
                        !.bodies = Append(@, t.outBuf)]
         ELSE [t EXCEPT !.sending = FALSE]

SendPendingMessages(t) ==
    IF ~IsConnected(t) THEN t
    ELSE IF Len(t.outBuf) > 0
         THEN [t EXCEPT !.sending = TRUE, !.writes = @ + 1,
                        !.bodies = Append(@, t.outBuf), !.outBuf = <<>>]
         ELSE [t EXCEPT !.sending = FALSE]

HttpSendMessage(t, m) ==
    IF ~IsConnected(t) THEN t
    ELSE LET t1 == [t EXCEPT !.outBuf = Append(@, m)]
         IN  IF ~t1.sending THEN SendPendingMessages(t1) ELSE t1

\* message_xmlhttprequest.onreadystatechange at readyState 4
WriteCompleted(t, ok, code) ==
    LET t1 == HttpResetTimeout([t EXCEPT !.writes = @ - 1])
    IN  IF ~ok THEN HandleHTTPTunnelError(t1, code) ELSE SendPendingMessages(t1)

\* makeRequest(), assigned to nextRequest
MakeRequest(t) == [t EXCEPT !.request_id = @ + 1, !.nextReq = TRUE]

\* A request that makeRequest has just sent: nothing has come back.
Fresh == [rs |-> 1, st |-> "none", toks |-> <<>>]

RECURSIVE ParseResponse(_, _, _, _)
RECURSIVE ParseLoop(_, _, _, _)

\* handleResponse(nextRequest): a new closure around the pre-issued request.
\* The request has had no handler so far; nx is how far it has got by now:
\* its readyState, its status and what it has received.  The request this
\* closure pre-issues in turn is fresh.
HandleResponse(t, nx, code) ==
    ParseResponse(
        [t EXCEPT !.rs = nx.rs, !.st = nx.st,
                  !.nextReq = FALSE, !.ivSet = FALSE, !.ivOn = FALSE, !.due = 0,
                  !.hdl = IF t.polling THEN "detect" ELSE "parse"],
        nx.toks, Fresh, code)

\* the parse loop of parseResponse over the newly readable part of the response
ParseLoop(t, toks, nx, code) ==
    IF toks = <<>> THEN t
    ELSE IF Head(toks) = "end"
         THEN IF t.nextReq
              THEN HandleResponse([t EXCEPT !.ivOn = FALSE], nx, code)
              ELSE [t EXCEPT !.ivOn = FALSE, !.hdl = "null"]
         ELSE ParseLoop(Emit(t, <<"oninstruction", "instr">>), Tail(toks), nx, code)

ParseResponse(t, toks, nx, code) ==
    IF ~IsConnected(t) THEN [t EXCEPT !.ivOn = FALSE]
    ELSE IF t.rs < 2 THEN t
    ELSE
      LET t1 == IF ~t.nextReq /\ t.st = "ok" THEN MakeRequest(t) ELSE t
          t2 == HttpResetTimeout(t1)
          t3 == IF ~t2.polling THEN t2
                ELSE IF t2.rs = 3 /\ ~t2.ivSet
                     THEN [t2 EXCEPT !.ivSet = TRUE, !.ivOn = TRUE]
                ELSE IF t2.rs = 4 /\ t2.ivSet
                     THEN [t2 EXCEPT !.ivOn = FALSE]
                ELSE t2
      IN  IF t1.rs \notin {3, 4} THEN t1
          ELSE IF t3.st = "cancel" THEN HttpDisconnect(t3)
          ELSE IF t3.st # "ok" THEN HandleHTTPTunnelError(t3, code)
          ELSE ParseLoop(t3, toks, nx, code)

\* the wrapper handleResponse installs while pollingMode is enabled
DetectAndParse(t, toks, nx, code) ==
    IF t.rs # 3 THEN ParseResponse(t, toks, nx, code)
    ELSE LET t1 == [t EXCEPT !.due = @ + 1]
             t2 == IF t1.due >= 2
                   THEN [t1 EXCEPT !.polling = FALSE, !.hdl = "parse"]
                   ELSE t1
         IN  ParseResponse(t2, toks, nx, code)

\* connect_xmlhttprequest.onreadystatechange at readyState 4
HandshakeCompleted(t, ok, uuid, hasToken, code) ==
    IF ~ok THEN HandleHTTPTunnelError([t EXCEPT !.hs = "done"], code)
    ELSE
      LET t1 == SetUUID(HttpResetTimeout([t EXCEPT !.hs = "done"]), uuid)
          t2 == [t1 EXCEPT !.token = hasToken]
      IN  IF ~hasToken THEN HttpCloseTunnel(t2, "UPSTREAM_NOT_FOUND")
          ELSE HandleResponse(
                   MakeRequest([SetState(t2, "OPEN") EXCEPT !.ping = TRUE]),
                   Fresh, code)

HttpConnect(t) ==
    [SetState(HttpResetTimeout(t), "CONNECTING") EXCEPT !.hs = "pending"]

\* ------------------------------------------------------------- WebSocketTunnel

WsResetTimeout(t) ==
    LET t1 == IF t.state = "UNSTABLE" THEN SetState(t, "OPEN") ELSE t
    IN  [t1 EXCEPT !.recvT = ReceiveTimeout, !.unstT = UnstableThreshold]

\* close_tunnel without its "ignore if already closed" return
WsCloseTunnelUnguarded(t, code) ==
    LET t1 == [t EXCEPT !.recvT = -1, !.unstT = -1, !.ping = FALSE]
        t2 == IF code # "SUCCESS" THEN Emit(t1, <<"onerror", code>>) ELSE t1
        t3 == SetState(t2, "CLOSED")
    IN  IF t3.socket = "null" THEN [t3 EXCEPT !.threw = TRUE]
        ELSE IF t3.socket \in {"connecting", "open"}
             THEN [t3 EXCEPT !.socket = "closing"]
        ELSE t3

\* socket.close() on the null socket of a tunnel never connected is a TypeError
WsCloseTunnel(t, code) ==
    LET t1 == [t EXCEPT !.recvT = -1, !.unstT = -1, !.ping = FALSE]
        t2 == IF code # "SUCCESS" THEN Emit(t1, <<"onerror", code>>) ELSE t1
        t3 == SetState(t2, "CLOSED")
    IN  IF t.state = "CLOSED" THEN t1
        ELSE IF t3.socket = "null" THEN [t3 EXCEPT !.threw = TRUE]
        ELSE IF t3.socket \in {"connecting", "open"}
             THEN [t3 EXCEPT !.socket = "closing"]
        ELSE t3

WsDisconnect(t) == WsCloseTunnel(t, "SUCCESS")

\* socket.send() raises InvalidStateError while the socket is still connecting
WsSendMessage(t) ==
    IF ~IsConnected(t) THEN t
    ELSE IF t.socket = "connecting" THEN [t EXCEPT !.threw = TRUE]
    ELSE t

WsConnect(t) ==
    [SetState(WsResetTimeout(t), "CONNECTING") EXCEPT !.socket = "connecting"]

WsOnOpen(t) == [WsResetTimeout([t EXCEPT !.socket = "open"]) EXCEPT !.ping = TRUE]

WsOnClose(t, code) == WsCloseTunnel([t EXCEPT !.socket = "closed"], code)

\* the body of "if (terminator === ';')" for one instruction of a frame;
\* window.location.reload() lets the handler run to its end, then the page
\* and with it the tunnel are gone
WsInstruction(t, i) ==
    LET t1 == IF t.uuid = NoUUID
              THEN SetState(IF i.opcode = "" THEN SetUUID(t, i.arg) ELSE t, "OPEN")
              ELSE t
        t2 == IF i.opcode = "reauth"
              THEN [WsCloseTunnel(t1, "UPSTREAM_TIMEOUT") EXCEPT !.reloaded = TRUE]
              ELSE t1
    IN  IF i.opcode # "" THEN Emit(t2, <<"oninstruction", i.opcode>>) ELSE t2

RECURSIVE WsParseLoop(_, _)
WsParseLoop(t, frame) ==
    IF frame = <<>> THEN t
    ELSE WsParseLoop(WsInstruction(t, Head(frame)), Tail(frame))

WsOnMessage(t, frame) == WsParseLoop(WsResetTimeout(t), frame)

\* ------------------------------------------------------------ StaticHTTPTunnel

RECURSIVE StaticDisconnect(_)

\* parser.oninstruction as connect() sets it: instructionReceived(opcode, args)
InstructionReceived(t, opcode) == Emit(t, <<"oninstruction", opcode>>)

\* Guacamole.Parser.receive(): every complete instruction of the received
\* text goes to parser.oninstruction, in order; toks are their opcodes
RECURSIVE ParserReceive(_, _)
ParserReceive(t, toks) ==
    IF toks = <<>> THEN t
    ELSE ParserReceive(InstructionReceived(t, Head(toks)), Tail(toks))

\* parser.receive(chunk) as readyStateChanged calls it; fed is the text the
\* parser of this connection has been given so far
Feed(t, chunk) == ParserReceive([t EXCEPT !.fed = @ \o chunk], chunk)

\* as ReadyStateChanged, without "offset = length"
ReadyStateChangedKeepOffset(t) ==
    LET t1 == IF t.xrs \in {3, 4} THEN SetState(t, "OPEN") ELSE t
        buffer == t.xtext
        length == Len(buffer)
        t2 == IF t.xrs \in {3, 4} /\ t.offset < length
              THEN Feed(t1, Substring(buffer, t.offset, Undefined))
              ELSE t1
    IN  IF t.xrs = 4 THEN StaticDisconnect(t2) ELSE t2

\* xhr.onreadystatechange; xtext is xhr.responseText, one element for each
\* instruction of the recording
ReadyStateChanged(t) ==
    LET t1 == IF t.xrs \in {3, 4} THEN SetState(t, "OPEN") ELSE t
        buffer == t.xtext
        length == Len(buffer)
        t2 == IF t.xrs \in {3, 4} /\ t.offset < length
              THEN [Feed(t1, Substring(buffer, t.offset, Undefined))
                       EXCEPT !.offset = length]
              ELSE t1
    IN  IF t.xrs = 4 THEN StaticDisconnect(t2) ELSE t2

\* xhr.abort() on a request that is under way sets readyState 4 and fires
\* readystatechange before it returns; the response is then empty.
StaticDisconnect(t) ==
    LET t1 == IF t.xhr = "active" /\ t.xrs \in {1, 2, 3}
              THEN ReadyStateChanged([t EXCEPT !.xrs = 4, !.xtext = <<>>])
              ELSE t
    IN  SetState([t1 EXCEPT !.xhr = "null", !.xrs = 0], "CLOSED")

\* a new request, offset and parser for every connection
StaticConnect(t) ==
    [SetState(StaticDisconnect(t), "CONNECTING")
        EXCEPT !.xhr = "active", !.xrs = 1, !.xtext = <<>>, !.offset = 0, !.fed = <<>>]

\* A network error sets readyState 4 and fires readystatechange, then error.
\* readyStateChanged has disconnected by then, so httpError reads xhr.status
\* of the null xhr: a TypeError, before tunnel.onerror is reached.
HttpError(t, code) ==
    LET t1 == ReadyStateChanged([t EXCEPT !.xrs = 4, !.xtext = <<>>])
    IN  IF t1.xhr = "null" THEN [t1 EXCEPT !.threw = TRUE]
        ELSE StaticDisconnect(Emit(t1, <<"onerror", code>>))

\* --------------------------------------------------------------- ChainedTunnel
\* The chain sees its tunnels through the Guacamole.Tunnel interface only:
\* their state and uuid fields, their four callback slots, connect() and
\* disconnect().  A slot holds "null", "wrapped" (the handler attach()
\* installs) or "chain" (the chain's own callback, copied by commit_tunnel).
\* Tunnels are numbered in constructor order; 0 stands for null.  A handler
\* also records, in calls, the connect(data) calls it made on tunnels.

ConnectData == {"d1", "d2"}

\* the chain's callback reached through chained_tunnel.setState(state)
CEmitViaSetState(ch, e) ==
    IF e[1] = "onstatechange"
    THEN [ch EXCEPT !.state = e[2], !.events = Append(@, e)]
    ELSE [ch EXCEPT !.events = Append(@, e)]

CEmit(ch, e) == [ch EXCEPT !.events = Append(@, e)]

RECURSIVE CandSetState(_, _, _)
RECURSIVE Attach(_, _)

\* commit_tunnel() of the attach(tunnel) call that wrapped tunnel i
CommitTunnel(ch, i) ==
    LET c1 == [ch EXCEPT !.cand[i].onstatechange = "chain",
                         !.cand[i].oninstruction = "chain",
                         !.cand[i].onerror = "chain",
                         !.cand[i].onuuid = "chain"]
        u  == ch.cand[i].uuid
        c2 == IF u # NoUUID THEN CEmit([c1 EXCEPT !.uuid = u], <<"onuuid", u>>) ELSE c1
    IN  [c2 EXCEPT !.committed = i]

\* failTunnel without the return on UPSTREAM_TIMEOUT
FailTunnelNeverFatal(ch, i, status) ==
    IF ch.tunnels = <<>> THEN [ch EXCEPT !.ret = 0]
    ELSE LET n == Head(ch.tunnels)
             c1 == [ch EXCEPT !.tunnels = Tail(@),
                              !.cand[i].onerror = "null",
                              !.cand[i].oninstruction = "null",
                              !.cand[i].onstatechange = "null"]
         IN  [Attach(c1, n) EXCEPT !.ret = n]

\* failTunnel(status); ret is the tunnel it returns
FailTunnel(ch, i, status) ==
    IF status = "UPSTREAM_TIMEOUT" THEN [ch EXCEPT !.tunnels = <<>>, !.ret = 0]
    ELSE IF ch.tunnels = <<>> THEN [ch EXCEPT !.ret = 0]
    ELSE LET n == Head(ch.tunnels)
             c1 == [ch EXCEPT !.tunnels = Tail(@),
                              !.cand[i].onerror = "null",
                              !.cand[i].oninstruction = "null",
                              !.cand[i].onstatechange = "null"]
         IN  [Attach(c1, n) EXCEPT !.ret = n]

\* the onstatechange attach() gives the tunnel
WrappedOnStateChange(ch, i, s) ==
    IF s = "OPEN" THEN CEmit(CommitTunnel(ch, i), <<"onstatechange", "OPEN">>)
    ELSE IF s = "CLOSED"
         THEN LET r == FailTunnel(ch, i, "none")
              IN  IF r.ret = 0 THEN CEmit(r, <<"onstatechange", "CLOSED">>) ELSE r
    ELSE ch

\* the oninstruction attach() gives the tunnel
WrappedOnInstruction(ch, i) == CEmit(CommitTunnel(ch, i), <<"oninstruction", "instr">>)

\* the onerror attach() gives the tunnel
WrappedOnError(ch, i, status) ==
    LET r == FailTunnel(ch, i, status)
    IN  IF r.ret = 0 THEN CEmit(r, <<"onerror", status>>) ELSE r

\* tunnel i invokes one of its callback slots
FireStateChange(ch, i, s) ==
    CASE ch.cand[i].onstatechange = "wrapped" -> WrappedOnStateChange(ch, i, s)
      [] ch.cand[i].onstatechange = "chain" -> CEmit(ch, <<"onstatechange", s>>)
      [] OTHER -> ch

FireInstruction(ch, i) ==
    CASE ch.cand[i].oninstruction = "wrapped" -> WrappedOnInstruction(ch, i)
      [] ch.cand[i].oninstruction = "chain" -> CEmit(ch, <<"oninstruction", "instr">>)
      [] OTHER -> ch

FireError(ch, i, status) ==
    CASE ch.cand[i].onerror = "wrapped" -> WrappedOnError(ch, i, status)
      [] ch.cand[i].onerror = "chain" -> CEmit(ch, <<"onerror", status>>)
      [] OTHER -> ch

\* Tunnel.setState and Tunnel.setUUID of tunnel i
CandSetState(ch, i, s) ==
    IF ch.cand[i].state # s
    THEN FireStateChange([ch EXCEPT !.cand[i].state = s], i, s)
    ELSE ch

CandSetUUID(ch, i, u) ==
    LET c1 == [ch EXCEPT !.cand[i].uuid = u]
    IN  IF c1.cand[i].onuuid = "chain" THEN CEmit(c1, <<"onuuid", u>>) ELSE c1

\* close_tunnel(status) of an HTTPTunnel or WebSocketTunnel; status "SUCCESS"
\* stands for every close that reports no error
CandCloseTunnel(ch, i, status) ==
    IF ch.cand[i].state = "CLOSED" THEN ch
    ELSE LET c1 == IF status # "SUCCESS" THEN FireError(ch, i, status) ELSE ch
         IN  [CandSetState(c1, i, "CLOSED") EXCEPT !.cand[i].active = FALSE]

\* StaticHTTPTunnel.disconnect(): aborting a transfer under way fires
\* readyStateChanged at readyState 4, which sets OPEN and disconnects
CandStaticDisconnect(ch, i) ==
    LET c1 == IF ch.cand[i].active
              THEN CandSetState(CandSetState(ch, i, "OPEN"), i, "CLOSED")
              ELSE ch
    IN  [CandSetState(c1, i, "CLOSED") EXCEPT !.cand[i].active = FALSE]

CandDisconnect(ch, i) ==
    IF ch.cand[i].kind = "static" THEN CandStaticDisconnect(ch, i)
    ELSE CandCloseTunnel(ch, i, "SUCCESS")

\* tunnel.connect(connect_data): reset_timeout() and setState(CONNECTING) for
\* HTTPTunnel and WebSocketTunnel, disconnect() and setState(CONNECTING) for
\* StaticHTTPTunnel
CandConnect(ch, i) ==
    LET c0 == [ch EXCEPT !.calls = Append(@, <<i, ch.data>>)]
        c1 == IF c0.cand[i].kind = "static" THEN CandStaticDisconnect(c0, i)
              ELSE IF c0.cand[i].state = "UNSTABLE" THEN CandSetState(c0, i, "OPEN")
              ELSE c0
        c2 == CandSetState(c1, i, "CONNECTING")
    IN  [c2 EXCEPT !.cand[i].active = TRUE, !.cand[i].started = TRUE]

\* attach(tunnel)
Attach(ch, i) ==
    CandConnect([ch EXCEPT !.attached = i,
                           !.cand[i].onstatechange = "wrapped",
                           !.cand[i].oninstruction = "wrapped",
                           !.cand[i].onerror = "wrapped"], i)

\* ChainedTunnel.connect(data)
ChainConnect(ch, data) ==
    LET c1 == [ch EXCEPT !.data = data]
    IN  IF c1.committed # 0 THEN Attach(c1, c1.committed)
        ELSE IF c1.tunnels # <<>>
             THEN Attach([c1 EXCEPT !.tunnels = Tail(@)], Head(c1.tunnels))
        ELSE CEmit(c1, <<"onerror", "SERVER_ERROR">>)

\* chained_tunnel.disconnect: the attached tunnel's, Tunnel's no-op before
ChainDisconnect(ch) == IF ch.attached = 0 THEN ch ELSE CandDisconnect(ch, ch.attached)

\* -------------------------------------------------- ChainedTunnel of chains
\* The same code with a ChainedTunnel among the tunnels of a ChainedTunnel.
\* Objects are numbered: Outer is the chain the application uses, built over
\* Inner and the tunnel OuterLeaf; Inner is a chain built over InnerLeaf.
\* A callback slot holds NullSlot, AppSlot (a callback of the application)
\* or Wrapper(c, i), the handler chain c's attach(i) created.  methods is the
\* tunnel whose closures an object's disconnect and sendMessage properties
\* hold: a tunnel's own, 0 for the empty functions of Guacamole.Tunnel.

Outer == 1
Inner == 2
InnerLeaf == 3
OuterLeaf == 4

NullSlot == [w |-> "null", c |-> 0, i |-> 0]
AppSlot == [w |-> "app", c |-> 0, i |-> 0]
Wrapper(c, i) == [w |-> "wrapped", c |-> c, i |-> i]

NEmit(h, e) == [h EXCEPT !.events = Append(@, e)]

RECURSIVE NFire(_, _, _, _)
RECURSIVE NAttach(_, _, _)

\* Tunnel.setState and Tunnel.setUUID of object i
NSetState(h, i, s) ==
    IF h.obj[i].state # s
    THEN NFire([h EXCEPT !.obj[i].state = s], h.obj[i].osc, "onstatechange", s)
    ELSE h

NSetUUID(h, i, u) == NFire([h EXCEPT !.obj[i].uuid = u], h.obj[i].ouu, "onuuid", u)

\* commit_tunnel() of chain c's attach(i)
NCommitTunnel(h, c, i) ==
    LET h1 == [h EXCEPT !.obj[i].osc = h.obj[c].osc,
                        !.obj[i].oin = h.obj[c].oin,
                        !.obj[i].oer = h.obj[c].oer,
                        !.obj[i].ouu = h.obj[c].ouu]
        u  == h.obj[i].uuid
        h2 == IF u # NoUUID THEN NSetUUID(h1, c, u) ELSE h1
    IN  [h2 EXCEPT !.obj[c].committed = i]

\* failTunnel(status) of chain c's attach(i)
NFailTunnel(h, c, i, status) ==
    IF status = "UPSTREAM_TIMEOUT" THEN [h EXCEPT !.obj[c].tunnels = <<>>, !.ret = 0]
    ELSE IF h.obj[c].tunnels = <<>> THEN [h EXCEPT !.ret = 0]
    ELSE LET n == Head(h.obj[c].tunnels)
             h1 == [h EXCEPT !.obj[c].tunnels = Tail(@),
                             !.obj[i].oer = NullSlot,
                             !.obj[i].oin = NullSlot,
                             !.obj[i].osc = NullSlot]
         IN  [NAttach(h1, c, n) EXCEPT !.ret = n]

\* the three handlers chain c's attach(i) gives tunnel i
NWrappedOnStateChange(h, c, i, s) ==
    IF s = "OPEN"
    THEN LET h1 == NCommitTunnel(h, c, i)
         IN  NFire(h1, h1.obj[c].osc, "onstatechange", s)
    ELSE IF s = "CLOSED"
         THEN LET r == NFailTunnel(h, c, i, "none")
              IN  IF r.ret = 0 THEN NFire(r, r.obj[c].osc, "onstatechange", s) ELSE r
    ELSE h

NWrappedOnInstruction(h, c, i) ==
    LET h1 == NCommitTunnel(h, c, i)
    IN  NFire(h1, h1.obj[c].oin, "oninstruction", "instr")

NWrappedOnError(h, c, i, status) ==
    LET r == NFailTunnel(h, c, i, status)
    IN  IF r.ret = 0 THEN NFire(r, r.obj[c].oer, "onerror", status) ELSE r

\* the function held by a callback slot is called
NFire(h, v, cb, arg) ==
    IF v.w = "app" THEN NEmit(h, <<cb, arg>>)
    ELSE IF v.w = "wrapped"
         THEN CASE cb = "onstatechange" -> NWrappedOnStateChange(h, v.c, v.i, arg)
                [] cb = "oninstruction" -> NWrappedOnInstruction(h, v.c, v.i)
                [] cb = "onerror" -> NWrappedOnError(h, v.c, v.i, arg)
                [] OTHER -> h
    ELSE h

\* close_tunnel(status) of the HTTPTunnel or WebSocketTunnel i
NCloseTunnel(h, i, status) ==
    IF h.obj[i].state = "CLOSED" THEN h
    ELSE LET h1 == IF status # "SUCCESS" THEN NFire(h, h.obj[i].oer, "onerror", status)
                   ELSE h
         IN  [NSetState(h1, i, "CLOSED") EXCEPT !.obj[i].active = FALSE]

\* i.connect(data): HTTPTunnel or WebSocketTunnel, or ChainedTunnel
NConnect(h, i, data) ==
    IF h.obj[i].kind = "chain"
    THEN LET h1 == [h EXCEPT !.obj[i].data = data]
             o  == h1.obj[i]
         IN  IF o.committed # 0 THEN NAttach(h1, i, o.committed)
             ELSE IF o.tunnels # <<>>
                  THEN NAttach([h1 EXCEPT !.obj[i].tunnels = Tail(@)], i, Head(o.tunnels))
             ELSE NFire(h1, o.oer, "onerror", "SERVER_ERROR")
    ELSE LET h0 == [h EXCEPT !.calls = Append(@, <<i, data>>)]
             h1 == IF h0.obj[i].state = "UNSTABLE" THEN NSetState(h0, i, "OPEN") ELSE h0
             h2 == NSetState(h1, i, "CONNECTING")
         IN  [h2 EXCEPT !.obj[i].active = TRUE, !.obj[i].started = TRUE]

\* attach(i) of chain c
NAttach(h, c, i) ==
    NConnect([h EXCEPT !.obj[c].methods = h.obj[i].methods,
                       !.obj[c].attached = i,
                       !.obj[i].osc = Wrapper(c, i),
                       !.obj[i].oin = Wrapper(c, i),
                       !.obj[i].oer = Wrapper(c, i)], i, h.obj[c].data)

\* i.disconnect() and i.sendMessage(): the functions the properties hold;
\* ran is the tunnel whose closure ran
NDisconnect(h, i) ==
    LET m == h.obj[i].methods
    IN  IF m = 0 THEN [h EXCEPT !.ran = 0]
        ELSE [NCloseTunnel(h, m, "SUCCESS") EXCEPT !.ran = m]

NSendMessage(h, i) == [h EXCEPT !.ran = h.obj[i].methods]

\* an object as its constructor leaves it
NewObject(k, id, list) ==
    [kind |-> k, state |-> "CONNECTING", uuid |-> NoUUID,
     osc |-> NullSlot, oin |-> NullSlot, oer |-> NullSlot, ouu |-> NullSlot,
     active |-> FALSE, started |-> FALSE,
     methods |-> IF k = "chain" THEN 0 ELSE id,
     tunnels |-> list, committed |-> 0, attached |-> 0, data |-> "none"]

\* Outer with the application's callbacks set on it
NewNest ==
    [obj |-> <<[NewObject("chain", Outer, <<Inner, OuterLeaf>>)
                    EXCEPT !.osc = AppSlot, !.oin = AppSlot,
                           !.oer = AppSlot, !.ouu = AppSlot],
               NewObject("chain", Inner, <<InnerLeaf>>),
               NewObject("generic", InnerLeaf, <<>>),
               NewObject("generic", OuterLeaf, <<>>)>>]

NoNestCall == [op |-> "init", actor |-> 0, arg |-> "", events |-> <<>>,
               calls |-> <<>>, ran |-> 0]

\* ------------------------------------------------- HTTPTunnel: read requests
\* The read side of an HTTPTunnel request by request.  Every request made by
\* makeRequest() has its readyState (rs), its status (st) and the
\* instructions received so far (text; "end" is the zero-length instruction).
\* A request passed to handleResponse() also has the variables of that
\* call: the handler set as onreadystatechange (hdl), the number of
\* instructions parsed (pos), the polling interval (ivSet: the variable is
\* set, ivOn: the interval runs), dataUpdateEvents (due) and nextRequest
\* (next, -1 for null).  st is "none" until the status is known, then "ok"
\* for 200, "cancel" for 0 and otherwise the code of the error.  The timers
\* are left to Spec.

NoRequest ==
    [made |-> FALSE, rs |-> 0, st |-> "none", text |-> <<>>, hdl |-> "none",
     pos |-> 0, ivSet |-> FALSE, ivOn |-> FALSE, due |-> 0, next |-> -1]

\* makeRequest(): made is the request it returns
RMakeRequest(s) ==
    [s EXCEPT !.req[s.request_id] = [NoRequest EXCEPT !.made = TRUE, !.rs = 1],
              !.request_id = @ + 1,
              !.made = s.request_id]

\* close_tunnel(status): the state and the callbacks
RClose(s, code) ==
    IF s.state = "CLOSED" THEN s
    ELSE LET s1 == IF code # "SUCCESS"
                      /\ (s.state = "CONNECTING" \/ code # "RESOURCE_NOT_FOUND")
                   THEN Emit(s, <<"onerror", code>>)
                   ELSE s
         IN  Emit([s1 EXCEPT !.state = "CLOSED"], <<"onstatechange", "CLOSED">>)

\* what a response is made of: "instr" is an instruction all of whose
\* elements have a length above zero, "end" is the instruction "0.;" and
\* "empty" is an instruction with a zero-length element after its opcode
Tokens == {"instr", "end", "empty"}

\* the parse loop reads a length of zero in these
ZeroLength(tok) == tok \in {"end", "empty"}

RECURSIVE RParseResponse(_, _)
RECURSIVE RParseLoop(_, _)

\* handleResponse(xmlhttprequest) for request n
RHandleResponse(s, n) ==
    RParseResponse([s EXCEPT !.req[n].hdl = IF s.polling THEN "detect" ELSE "parse",
                             !.req[n].pos = 0, !.req[n].ivSet = FALSE,
                             !.req[n].ivOn = FALSE, !.req[n].due = 0,
                             !.req[n].next = -1], n)

\* the parse loop of the handler of request r
RParseLoop(s, r) ==
    LET q == s.req[r]
    IN  IF q.pos >= Len(q.text) THEN s
        ELSE IF ZeroLength(q.text[q.pos + 1])
        THEN LET s1 == [s EXCEPT !.req[r].ivOn = FALSE, !.req[r].hdl = "none",
                                 !.req[r].rs = 0]
             IN  IF q.next # -1 THEN RHandleResponse(s1, q.next) ELSE s1
        ELSE RParseLoop(Emit([s EXCEPT !.req[r].pos = @ + 1],
                             <<"oninstruction", r, q.pos + 1>>), r)

\* parseResponse() handling the next request as soon as it is made
RParseResponseEager(s, r) ==
    IF s.state # "OPEN" THEN [s EXCEPT !.req[r].ivOn = FALSE]
    ELSE IF s.req[r].rs < 2 THEN s
    ELSE LET s1 == IF s.req[r].next = -1 /\ s.req[r].st = "ok"
                   THEN LET m == RMakeRequest(s)
                        IN  RHandleResponse([m EXCEPT !.req[r].next = m.made], m.made)
                   ELSE s
             q1 == s1.req[r]
             s2 == IF ~s1.polling THEN s1
                   ELSE IF q1.rs = 3 /\ ~q1.ivSet
                        THEN [s1 EXCEPT !.req[r].ivSet = TRUE, !.req[r].ivOn = TRUE]
                   ELSE IF q1.rs = 4 /\ q1.ivSet THEN [s1 EXCEPT !.req[r].ivOn = FALSE]
                   ELSE s1
         IN  IF q1.rs \notin {3, 4} THEN s1
             ELSE IF q1.st = "cancel" THEN RClose(s2, "SUCCESS")
             ELSE IF q1.st # "ok" THEN RClose(s2, q1.st)
             ELSE RParseLoop(s2, r)

\* parseResponse() making a request whenever the status is 200
RParseResponseAlways(s, r) ==
    IF s.state # "OPEN" THEN [s EXCEPT !.req[r].ivOn = FALSE]
    ELSE IF s.req[r].rs < 2 THEN s
    ELSE LET s1 == IF s.req[r].st = "ok" /\ s.request_id < MaxReq
                   THEN LET m == RMakeRequest(s) IN [m EXCEPT !.req[r].next = m.made]
                   ELSE s
             q1 == s1.req[r]
             s2 == IF ~s1.polling THEN s1
                   ELSE IF q1.rs = 3 /\ ~q1.ivSet
                        THEN [s1 EXCEPT !.req[r].ivSet = TRUE, !.req[r].ivOn = TRUE]
                   ELSE IF q1.rs = 4 /\ q1.ivSet THEN [s1 EXCEPT !.req[r].ivOn = FALSE]
                   ELSE s1
         IN  IF q1.rs \notin {3, 4} THEN s1
             ELSE IF q1.st = "cancel" THEN RClose(s2, "SUCCESS")
             ELSE IF q1.st # "ok" THEN RClose(s2, q1.st)
             ELSE RParseLoop(s2, r)

\* parseResponse() of the handler of request r
RParseResponse(s, r) ==
    IF s.state # "OPEN" THEN [s EXCEPT !.req[r].ivOn = FALSE]
    ELSE IF s.req[r].rs < 2 THEN s
    ELSE LET s1 == IF s.req[r].next = -1 /\ s.req[r].st = "ok"
                   THEN LET m == RMakeRequest(s) IN [m EXCEPT !.req[r].next = m.made]
                   ELSE s
             q1 == s1.req[r]
             s2 == IF ~s1.polling THEN s1
                   ELSE IF q1.rs = 3 /\ ~q1.ivSet
                        THEN [s1 EXCEPT !.req[r].ivSet = TRUE, !.req[r].ivOn = TRUE]
                   ELSE IF q1.rs = 4 /\ q1.ivSet THEN [s1 EXCEPT !.req[r].ivOn = FALSE]
                   ELSE s1
         IN  IF q1.rs \notin {3, 4} THEN s1
             ELSE IF q1.st = "cancel" THEN RClose(s2, "SUCCESS")
             ELSE IF q1.st # "ok" THEN RClose(s2, q1.st)
             ELSE RParseLoop(s2, r)

\* the onreadystatechange handleResponse sets while polling is enabled
RDetectAndParse(s, r) ==
    IF s.req[r].rs # 3 THEN RParseResponse(s, r)
    ELSE LET s1 == [s EXCEPT !.req[r].due = @ + 1]
             s2 == IF s1.req[r].due >= 2
                   THEN [s1 EXCEPT !.polling = FALSE, !.req[r].hdl = "parse"]
                   ELSE s1
         IN  RParseResponse(s2, r)

\* request r fires readystatechange
RReadyStateChange(s, r) ==
    CASE s.req[r].hdl = "detect" -> RDetectAndParse(s, r)
      [] s.req[r].hdl = "parse" -> RParseResponse(s, r)
      [] OTHER -> s

\* an HTTPTunnel whose handshake just succeeded: handleResponse(makeRequest())
\* (requests 0..MaxReq-1 are made; a step that makes one more is left out)
FirstRead ==
    [state |-> "OPEN", polling |-> TRUE, request_id |-> 1, made |-> 0,
     last |-> <<0, 0>>,
     req |-> [n \in 0..MaxReq |->
                IF n = 0 THEN [NoRequest EXCEPT !.made = TRUE, !.rs = 1, !.hdl = "detect"]
                ELSE NoRequest]]

NoRead == [op |-> "init", actor |-> 0, events |-> <<>>]

\* ------------------------------------------------------ sendMessage: framing
DigitChar(d) ==
    CASE d = 0 -> "0" [] d = 1 -> "1" [] d = 2 -> "2" [] d = 3 -> "3" [] d = 4 -> "4"
      [] d = 5 -> "5" [] d = 6 -> "6" [] d = 7 -> "7" [] d = 8 -> "8" [] OTHER -> "9"

\* a number as text, as string concatenation makes it
RECURSIVE ToDigits(_)
ToDigits(n) ==
    IF n < 10 THEN <<DigitChar(n)>> ELSE ToDigits(n \div 10) \o <<DigitChar(n % 10)>>

\* getElement(value)
GetElement(string) == ToDigits(Len(string)) \o <<".">> \o string

\* the message sendMessage builds from its arguments
RECURSIVE AppendElements(_, _)
AppendElements(message, elements) ==
    IF elements = <<>> THEN message
    ELSE AppendElements(message \o <<",">> \o GetElement(Head(elements)), Tail(elements))

Message(elements) ==
    AppendElements(GetElement(Head(elements)), Tail(elements)) \o <<";">>

\* ------------------------------------------- HTTPTunnel: the response text
\* parseResponse() on the text of one response: h has responseText as far as
\* received (text), the variables of the handleResponse() call, whether the
\* zero-length branch was taken (ended), and the instructions passed to
\* oninstruction so far (log).  rest is the text still to be received and
\* sent the elements it was framed from, when it was framed by sendMessage.

NoResponse ==
    [text |-> <<>>, startIndex |-> 0, elementEnd |-> -1, elements |-> <<>>,
     ended |-> FALSE, log |-> <<>>, rest |-> <<>>, sent |-> <<>>]

\* the body of if (elementEnd >= startIndex)
HElement(h) ==
    LET element == Substring(h.text, h.startIndex, h.elementEnd)
        terminator == Substring(h.text, h.elementEnd, Add1(h.elementEnd))
        els == Append(h.elements, element)
        h1 == IF terminator = <<";">>
              THEN [h EXCEPT !.log = Append(@, <<Head(els), Tail(els)>>),
                             !.elements = <<>>]
              ELSE [h EXCEPT !.elements = els]
    IN  [h1 EXCEPT !.startIndex = Add1(h.elementEnd)]

\* while (elementEnd < current.length) { ... }
RECURSIVE HParseLoop(_)
HParseLoop(h) ==
    IF ~Less(h.elementEnd, Len(h.text)) THEN h
    ELSE LET h1 == IF AtLeast(h.elementEnd, h.startIndex) THEN HElement(h) ELSE h
             lengthEnd == IndexOf(h1.text, ".", h1.startIndex)
             length == ParseInt(Substring(h1.text, Add1(h1.elementEnd), lengthEnd))
         IN  IF lengthEnd = NotFound THEN [h1 EXCEPT !.startIndex = Len(h1.text)]
             ELSE IF length = 0 THEN [h1 EXCEPT !.ended = TRUE]
             ELSE HParseLoop([h1 EXCEPT !.startIndex = lengthEnd + 1,
                                        !.elementEnd = Plus(lengthEnd + 1, length)])

\* parseResponse() starting over from the first character at every call
HReceiveFromStart(h, more) ==
    LET h1 == [h EXCEPT !.text = @ \o more]
    IN  IF h.ended THEN h1
        ELSE HParseLoop([h1 EXCEPT !.startIndex = 0, !.elementEnd = -1,
                                   !.elements = <<>>])

\* parseResponse() when more of the response has been received; after the
\* zero-length branch the handler is gone
HReceive(h, more) ==
    LET h1 == [h EXCEPT !.text = @ \o more]
    IN  IF h.ended THEN h1 ELSE HParseLoop(h1)

\* ------------------------------------------- WebSocketTunnel: socket.onmessage
\* The parse loop of onmessage, one iteration at a time, on the text of one
\* frame.  w has the frame (msg), the loop's variables, and of the tunnel
\* its state and its uuid (uuidSet: not null).  The timers are left to Spec.

Str(a, b, c, d, e, f) == <<a, b, c, d, e, f>>

\* close_tunnel(status) of WebSocketTunnel
FCloseTunnel(w, code) ==
    IF w.state = "CLOSED" THEN w
    ELSE LET w1 == IF code # "SUCCESS" THEN Emit(w, <<"onerror", code>>) ELSE w
         IN  Emit([w1 EXCEPT !.state = "CLOSED"], <<"onstatechange", "CLOSED">>)

FSetState(w, st) ==
    IF st # w.state THEN Emit([w EXCEPT !.state = st], <<"onstatechange", st>>) ELSE w

\* elements[0] of the arguments: undefined when there is none
FirstArg(args) == IF args = <<>> THEN <<"undefined">> ELSE args[1]

\* the body of if (terminator === ";")
FInstruction(w) ==
    LET opcode == Head(w.elements)
        args   == Tail(w.elements)
        w1 == IF ~w.uuidSet
              THEN FSetState(IF opcode = <<>>
                             THEN Emit([w EXCEPT !.uuidSet = TRUE, !.uuid = FirstArg(args)],
                                       <<"onuuid", FirstArg(args)>>)
                             ELSE w, "OPEN")
              ELSE w
        w2 == IF opcode = Str("r", "e", "a", "u", "t", "h")
              THEN FCloseTunnel(w1, "UPSTREAM_TIMEOUT")
              ELSE w1
        w3 == IF opcode # <<>> THEN Emit(w2, <<"oninstruction", opcode, args>>) ELSE w2
    IN  [w3 EXCEPT !.elements = <<>>]

\* one iteration of do { ... } while (startIndex < message.length)
FIteration(w) ==
    LET m == w.msg
        lengthEnd == IndexOf(m, ".", w.startIndex)
        found == lengthEnd # NotFound
        length == ParseInt(Substring(m, Add1(w.elementEnd), lengthEnd))
        si == IF found THEN lengthEnd + 1 ELSE w.startIndex
        ee == IF found THEN Plus(si, length) ELSE w.elementEnd
        w1 == IF found THEN w ELSE FCloseTunnel(w, "SERVER_ERROR")
        element == Substring(m, si, ee)
        terminator == Substring(m, ee, Add1(ee))
        w2 == [w1 EXCEPT !.elements = Append(@, element)]
        w3 == IF terminator = <<";">> THEN FInstruction(w2) ELSE w2
    IN  [w3 EXCEPT !.startIndex = Add1(ee), !.elementEnd = ee,
                   !.looping = Less(Add1(ee), Len(m))]

\* onmessage up to the loop: reset_timeout() and the loop's variables
FOnMessage(st, hasUuid, message) ==
    [msg |-> message, startIndex |-> 0, elementEnd |-> Undefined, elements |-> <<>>,
     looping |-> TRUE, state |-> IF st = "UNSTABLE" THEN "OPEN" ELSE st,
     uuidSet |-> hasUuid, uuid |-> <<>>]

NoFrame == [FOnMessage("CLOSED", FALSE, <<>>) EXCEPT !.looping = FALSE]

\* ------------------------------------------------------- one tunnel: actions

\* a tunnel as its constructor leaves it
NewTunnel(k) ==
    [kind |-> k, state |-> "CONNECTING", uuid |-> NoUUID,
     active |-> FALSE, started |-> FALSE,
     onstatechange |-> "null", oninstruction |-> "null",
     onerror |-> "null", onuuid |-> "null"]

\* new Guacamole.ChainedTunnel(tunnel 1, ..., tunnel NumTunnels)
NewChain(kinds) ==
    [tunnels |-> [i \in 1..NumTunnels |-> i], committed |-> 0, attached |-> 0,
     data |-> "none", uuid |-> NoUUID, state |-> "CONNECTING",
     cand |-> [i \in 1..NumTunnels |-> NewTunnel(kinds[i])]]

NoCall == [op |-> "init", actor |-> 0, arg |-> "", events |-> <<>>, calls |-> <<>>]

NewInstance ==
    /\ tunnel = [state |-> "CONNECTING", uuid |-> NoUUID]
    /\ priv = [recvT |-> -1, unstT |-> -1, ping |-> FALSE,
               hs |-> "none", token |-> FALSE, sending |-> FALSE, outBuf |-> <<>>,
               writes |-> 0, polling |-> TRUE, request_id |-> 0,
               hdl |-> "none", rs |-> 0, st |-> "none", ivSet |-> FALSE,
               ivOn |-> FALSE, nextReq |-> FALSE, due |-> 0,
               socket |-> "null", reloaded |-> FALSE, xhr |-> "null", xrs |-> 0,
               xtext |-> <<>>, offset |-> 0]
    /\ obs = [op |-> "init", arg |-> "", events |-> <<>>, threw |-> FALSE,
              bodies |-> <<>>]
    /\ clock = [sinceData |-> 0, pollDue |-> FALSE, everOpen |-> FALSE,
                gotFirst |-> FALSE, fed |-> <<>>]

Init ==
    /\ kind \in {"http", "ws", "static"}
    /\ NewInstance
    /\ chain = NewChain([i \in 1..NumTunnels |-> "generic"])
    /\ cobs = NoCall
    /\ nest = NewNest
    /\ nobs = NoNestCall
    /\ rd = FirstRead
    /\ robs = NoRead
    /\ fr = NoFrame
    /\ fobs = <<>>
    /\ hp = NoResponse

\* The state after a handler returned r; received says whether the event
\* brought data from the network.
Apply(r, name, a, received) ==
    /\ kind' = kind
    /\ tunnel' = Pick(r, PubFields)
    /\ priv' = Pick(r, PrivFields)
    /\ obs' = [op |-> name, arg |-> a, events |-> r.events, threw |-> r.threw,
               bodies |-> r.bodies]
    /\ clock' = [sinceData |-> IF received THEN 0 ELSE clock.sinceData,
                 pollDue |-> clock.pollDue /\ r.ivOn /\ name # "poll",
                 everOpen |-> r.everOpen,
                 gotFirst |-> clock.gotFirst \/ name = "onmessage",
                 fed |-> r.fed]
    /\ UNCHANGED <<cvars, nvars, rvars, pvars>>

Started == priv.hs # "none" \/ priv.socket # "null" \/ kind = "static"

\* the page has not been reloaded
Alive == ~priv.reloaded

\* tunnel.connect(data)
Connect ==
    /\ Alive
    /\ \/ /\ kind = "http" /\ priv.hs = "none"
          /\ Apply(HttpConnect(Cur), "connect", "", TRUE)
       \/ /\ kind = "ws" /\ priv.socket = "null"
          /\ Apply(WsConnect(Cur), "connect", "", TRUE)
       \/ /\ kind = "static"
          /\ Apply(StaticConnect(Cur), "connect", "", TRUE)

\* tunnel.disconnect()
Disconnect ==
    /\ Alive
    /\ \/ kind = "http" /\ Apply(HttpDisconnect(Cur), "disconnect", "", FALSE)
       \/ kind = "ws" /\ Apply(WsDisconnect(Cur), "disconnect", "", FALSE)
       \/ kind = "static" /\ Apply(StaticDisconnect(Cur), "disconnect", "", FALSE)

\* tunnel.sendMessage(...) called by the application
SendMessage ==
    /\ Alive
    /\ \/ /\ kind = "http"
          /\ Len(priv.outBuf) < MaxBuf /\ priv.writes < MaxWrites
          /\ Apply(HttpSendMessage(Cur, "msg"), "sendMessage", "", FALSE)
       \/ kind = "ws" /\ Apply(WsSendMessage(Cur), "sendMessage", "", FALSE)
       \/ kind = "static" /\ Apply(Cur, "sendMessage", "", FALSE)

Dec(n) == IF n > 0 THEN n - 1 ELSE n
ClockCap == ReceiveTimeout + 1

\* one tick of time passes
Tick ==
    /\ Alive
    /\ kind \in {"http", "ws"} /\ Started
    /\ priv.recvT # 0 /\ priv.unstT # 0 /\ ~clock.pollDue
    /\ priv.recvT > 0 \/ priv.unstT > 0 \/ clock.sinceData < ClockCap
    /\ priv' = [priv EXCEPT !.recvT = Dec(@), !.unstT = Dec(@)]
    /\ clock' = [clock EXCEPT !.sinceData = IF @ < ClockCap THEN @ + 1 ELSE @,
                              !.pollDue = priv.ivOn]
    /\ obs' = [op |-> "tick", arg |-> "", events |-> <<>>, threw |-> FALSE,
               bodies |-> <<>>]
    /\ UNCHANGED <<kind, tunnel>>
    /\ UNCHANGED <<cvars, nvars, rvars, pvars>>

\* the function reset_timeout gave to setTimeout for receive_timeout
ReceiveTimeoutFires ==
    /\ Alive
    /\ priv.recvT = 0 /\ ~clock.pollDue
    /\ \/ kind = "http"
          /\ Apply(HttpCloseTunnel(Cur, "UPSTREAM_TIMEOUT"), "receive_timeout", "", FALSE)
       \/ kind = "ws"
          /\ Apply(WsCloseTunnel(Cur, "UPSTREAM_TIMEOUT"), "receive_timeout", "", FALSE)

\* the function reset_timeout gave to setTimeout for unstableTimeout
UnstableTimeoutFires ==
    /\ Alive
    /\ priv.unstT = 0 /\ ~clock.pollDue
    /\ Apply(SetState([Cur EXCEPT !.unstT = -1], "UNSTABLE"), "unstableTimeout", "", FALSE)

\* sendPing, every PING_FREQUENCY
PingFires ==
    /\ Alive
    /\ priv.ping
    /\ \/ /\ kind = "http"
          /\ Len(priv.outBuf) < MaxBuf /\ priv.writes < MaxWrites
          /\ Apply(HttpSendMessage(Cur, "nop"), "sendPing", "", FALSE)
       \/ kind = "ws" /\ Apply(WsSendMessage(Cur), "sendPing", "", FALSE)

\* the connect request completes
HandshakeDone ==
    /\ kind = "http" /\ priv.hs = "pending"
    /\ priv.request_id < MaxReq
    /\ \/ \E u \in UUIDs, hasToken \in BOOLEAN :
            Apply(HandshakeCompleted(Cur, TRUE, u, hasToken, "SERVER_ERROR"),
                  "handshake", "SUCCESS", TRUE)
       \/ \E code \in ErrorCodes :
            Apply(HandshakeCompleted(Cur, FALSE, NoUUID, FALSE, code),
                  "handshake", code, TRUE)

\* a write request completes
WriteDone ==
    /\ kind = "http" /\ priv.writes > 0
    /\ \/ Apply(WriteCompleted(Cur, TRUE, "SERVER_ERROR"), "write", "SUCCESS", TRUE)
       \/ \E code \in ErrorCodes :
            Apply(WriteCompleted(Cur, FALSE, code), "write", code, TRUE)

HasEnd(toks) == \E k \in 1..Len(toks) : toks[k] = "end"

\* How far the pre-issued request can have got when it is handled (which the
\* end marker in toks brings about): anything if it was issued by an earlier
\* event, nothing if this event issues it.
NextStates(toks) ==
    IF ~priv.nextReq \/ ~HasEnd(toks) THEN {Fresh}
    ELSE {Fresh}
         \cup [rs : {2}, st : {"ok", "err"}, toks : {<<>>}]
         \cup [rs : {3, 4}, st : {"ok"}, toks : Chunks]
         \cup [rs : {3, 4}, st : {"err"}, toks : {<<>>}]
         \cup [rs : {4}, st : {"cancel"}, toks : {<<>>}]

\* readystatechange of the read request being handled
ReadEvent ==
    /\ kind = "http" /\ priv.hdl \in {"detect", "parse"} /\ priv.rs \in 1..3
    /\ \E newrs \in {priv.rs + 1, 3, 4}, newst \in {"ok", "err", "cancel"},
          toks \in Chunks, code \in ErrorCodes :
      \E nx \in NextStates(toks) :
        /\ newrs >= priv.rs /\ (newrs = priv.rs => newrs = 3)
        /\ (newrs = 3 /\ priv.rs = 1) => FALSE
        /\ newst = "cancel" => newrs = 4
        /\ (priv.rs >= 2 /\ newst # "cancel") => newst = priv.st
        /\ toks # <<>> => (newrs \in {3, 4} /\ newst = "ok")
        /\ newst = "err" \/ code = "SERVER_ERROR"
        /\ LET t == [Cur EXCEPT !.rs = newrs, !.st = newst]
               a == IF newst = "err" THEN code ELSE newst
               r == IF priv.hdl = "detect"
                    THEN DetectAndParse(t, toks, nx, code)
                    ELSE ParseResponse(t, toks, nx, code)
           IN  r.request_id <= MaxReq /\ Apply(r, "read", a, TRUE)

\* a tick of the 30ms interval parseResponse started; fresh says whether the
\* response has grown since parseResponse last looked at it
PollFires ==
    /\ kind = "http" /\ priv.ivOn
    /\ \E fresh \in BOOLEAN, toks \in Chunks :
      \E nx \in NextStates(toks) :
        /\ toks # <<>> => fresh
        /\ fresh => (priv.rs = 3 /\ priv.st = "ok")
        /\ LET r == ParseResponse(Cur, toks, nx, "SERVER_ERROR")
           IN  /\ r.request_id <= MaxReq
               /\ Apply(r, "poll", IF fresh THEN "fresh" ELSE "stale", fresh)

\* socket.onopen
WsOpen ==
    /\ Alive
    /\ kind = "ws" /\ priv.socket = "connecting"
    /\ Apply(WsOnOpen(Cur), "onopen", "", TRUE)

\* socket.onmessage
WsMessage ==
    /\ Alive
    /\ kind = "ws" /\ priv.socket = "open"
    /\ \E frame \in WsFrames :
        Apply(WsOnMessage(Cur, frame), "onmessage", frame[Len(frame)].opcode, TRUE)

\* socket.onclose; the status comes from event.reason or event.code
WsClose ==
    /\ Alive
    /\ kind = "ws" /\ priv.socket \in {"connecting", "open", "closing"}
    /\ \E code \in StatusCodes :
        Apply(WsOnClose(Cur, code), "onclose", code, TRUE)

\* readystatechange of the dump request
\* the opcodes of the instructions of a recording: "" is the internal opcode
StaticOpcodes == {"instr", ""}

\* the text received since the last event
StaticChunks ==
    {<<>>} \cup {<<a>> : a \in StaticOpcodes}
           \cup {<<a, b>> : a \in StaticOpcodes, b \in StaticOpcodes}

StaticReady ==
    /\ kind = "static" /\ priv.xhr = "active" /\ priv.xrs \in 1..3
    /\ \E newrs \in {priv.xrs + 1, 3}, toks \in StaticChunks :
        /\ newrs >= priv.xrs /\ (newrs = priv.xrs => newrs = 3)
        /\ toks # <<>> => newrs \in {3, 4}
        /\ Len(priv.xtext) + Len(toks) <= MaxStatic
        /\ Apply(ReadyStateChanged([Cur EXCEPT !.xrs = newrs, !.xtext = @ \o toks]),
                 "ready", "", TRUE)

\* the dump request fails
StaticError ==
    /\ kind = "static" /\ priv.xhr = "active" /\ priv.xrs \in 1..3
    /\ \E code \in ErrorCodes :
        Apply(HttpError(Cur, code), "error", code, TRUE)

Next ==
    \/ Connect
    \/ Disconnect
    \/ SendMessage
    \/ Tick
    \/ ReceiveTimeoutFires
    \/ UnstableTimeoutFires
    \/ PingFires
    \/ HandshakeDone
    \/ WriteDone
    \/ ReadEvent
    \/ PollFires
    \/ WsOpen
    \/ WsMessage
    \/ WsClose
    \/ StaticReady
    \/ StaticError

Spec == Init /\ [][Next]_vars

\* ------------------------------------------------------ ChainedTunnel: actions
ChainFields == {"tunnels", "committed", "attached", "data", "uuid", "state", "cand"}

CCur == chain @@ [events |-> <<>>, ret |-> 0, calls |-> <<>>]

\* The state after a call into the chain, or a handler of tunnel i, returned r.
CApply(r, name, i, a) ==
    /\ chain' = Pick(r, ChainFields)
    /\ cobs' = [op |-> name, actor |-> i, arg |-> a, events |-> r.events,
                calls |-> r.calls]
    /\ UNCHANGED <<tvars, nvars, rvars, pvars>>

CInit ==
    /\ kind = "http"
    /\ NewInstance
    /\ \E kinds \in [1..NumTunnels -> {"generic", "static"}] : chain = NewChain(kinds)
    /\ cobs = NoCall
    /\ nest = NewNest
    /\ nobs = NoNestCall
    /\ rd = FirstRead
    /\ robs = NoRead
    /\ fr = NoFrame
    /\ fobs = <<>>
    /\ hp = NoResponse

\* the application calls connect(data) on the chain
ChainConnectCall ==
    \E d \in ConnectData : CApply(ChainConnect(CCur, d), "connect", 0, d)

\* the application calls disconnect() on the chain
ChainDisconnectCall ==
    CApply(ChainDisconnect(CCur), "disconnect", chain.attached, "")

\* An HTTPTunnel's handshake succeeds (reset_timeout, setUUID, setState(OPEN)),
\* or a WebSocketTunnel receives its UUID in the first frame.
\* the UUID of the session of candidate i: every tunnel has its own
SessionUUID(i) == CASE i = 1 -> "u1" [] i = 2 -> "u2" [] OTHER -> "u3"

CandHandshake ==
    \E i \in 1..NumTunnels :
        /\ chain.cand[i].kind = "generic"
        /\ chain.cand[i].started /\ chain.cand[i].state # "OPEN"
        /\ LET u == SessionUUID(i)
               r == IF chain.cand[i].state = "UNSTABLE"
                    THEN CandSetUUID(CandSetState(CCur, i, "OPEN"), i, u)
                    ELSE CandSetState(CandSetUUID(CCur, i, u), i, "OPEN")
           IN  CApply([r EXCEPT !.cand[i].active = TRUE], "handshake", i, u)

\* readyStateChanged of a StaticHTTPTunnel at readyState 3
CandReady ==
    \E i \in 1..NumTunnels :
        /\ chain.cand[i].kind = "static" /\ chain.cand[i].active
        /\ chain.cand[i].state = "CONNECTING"
        /\ CApply(CandSetState(CCur, i, "OPEN"), "ready", i, "")

\* A tunnel delivers an instruction; a WebSocketTunnel that has no UUID yet
\* first sets OPEN.
CandInstruction ==
    \E i \in 1..NumTunnels :
        /\ chain.cand[i].active
        /\ \/ chain.cand[i].kind = "generic" /\ chain.cand[i].state # "CLOSED"
           \/ chain.cand[i].kind = "static" /\ chain.cand[i].state = "OPEN"
        /\ LET c1 == IF chain.cand[i].kind = "generic" /\ chain.cand[i].uuid = NoUUID
                     THEN CandSetState(CCur, i, "OPEN")
                     ELSE CCur
           IN  CApply(FireInstruction(c1, i), "instruction", i, "")

\* the unstableTimeout of a tunnel fires
CandUnstable ==
    \E i \in 1..NumTunnels :
        /\ chain.cand[i].kind = "generic" /\ chain.cand[i].active
        /\ chain.cand[i].state \in {"CONNECTING", "OPEN"}
        /\ CApply(CandSetState(CCur, i, "UNSTABLE"), "unstable", i, "")

\* reset_timeout of an UNSTABLE tunnel
CandStable ==
    \E i \in 1..NumTunnels :
        /\ chain.cand[i].kind = "generic" /\ chain.cand[i].active
        /\ chain.cand[i].state = "UNSTABLE"
        /\ CApply(CandSetState(CCur, i, "OPEN"), "stable", i, "")

\* A tunnel closes by itself: close_tunnel(status) of an HTTPTunnel or
\* WebSocketTunnel, the end of the transfer of a StaticHTTPTunnel.
CandClosed ==
    \E i \in 1..NumTunnels :
        /\ chain.cand[i].active
        /\ \/ /\ chain.cand[i].kind = "generic"
              /\ \E status \in StatusCodes :
                    CApply(CandCloseTunnel(CCur, i, status), "closed", i, status)
           \/ /\ chain.cand[i].kind = "static"
              /\ CApply(CandStaticDisconnect(CCur, i), "closed", i, "SUCCESS")

CNext ==
    \/ ChainConnectCall
    \/ ChainDisconnectCall
    \/ CandHandshake
    \/ CandReady
    \/ CandInstruction
    \/ CandUnstable
    \/ CandStable
    \/ CandClosed

SpecChain == CInit /\ [][CNext]_vars

\* -------------------------------------------- ChainedTunnel of chains: actions
NCur == nest @@ [events |-> <<>>, calls |-> <<>>, ret |-> 0, ran |-> 0]

NApply(r, name, i, a) ==
    /\ nest' = [obj |-> r.obj]
    /\ nobs' = [op |-> name, actor |-> i, arg |-> a, events |-> r.events,
                calls |-> r.calls, ran |-> r.ran]
    /\ UNCHANGED <<tvars, cvars, rvars, pvars>>

NInit ==
    /\ kind = "http"
    /\ NewInstance
    /\ chain = NewChain([i \in 1..NumTunnels |-> "generic"])
    /\ cobs = NoCall
    /\ nest = NewNest
    /\ nobs = NoNestCall
    /\ rd = FirstRead
    /\ robs = NoRead
    /\ fr = NoFrame
    /\ fobs = <<>>
    /\ hp = NoResponse

Leaves == {InnerLeaf, OuterLeaf}

\* the application calls connect(data), disconnect(), sendMessage() on Outer
NConnectCall ==
    \E d \in ConnectData : NApply(NConnect(NCur, Outer, d), "connect", Outer, d)

NDisconnectCall == NApply(NDisconnect(NCur, Outer), "disconnect", Outer, "")

NSendMessageCall == NApply(NSendMessage(NCur, Outer), "sendMessage", Outer, "")

\* events of the HTTPTunnels and WebSocketTunnels, as in SpecChain
NLeafHandshake ==
    \E i \in Leaves, u \in UUIDs :
        /\ nest.obj[i].started /\ nest.obj[i].state # "OPEN"
        /\ LET r == IF nest.obj[i].state = "UNSTABLE"
                    THEN NSetUUID(NSetState(NCur, i, "OPEN"), i, u)
                    ELSE NSetState(NSetUUID(NCur, i, u), i, "OPEN")
           IN  NApply([r EXCEPT !.obj[i].active = TRUE], "handshake", i, u)

NLeafInstruction ==
    \E i \in Leaves :
        /\ nest.obj[i].active /\ nest.obj[i].state # "CLOSED"
        /\ LET h1 == IF nest.obj[i].uuid = NoUUID THEN NSetState(NCur, i, "OPEN")
                     ELSE NCur
           IN  NApply(NFire(h1, h1.obj[i].oin, "oninstruction", "instr"),
                      "instruction", i, "")

NLeafUnstable ==
    \E i \in Leaves :
        /\ nest.obj[i].active /\ nest.obj[i].state \in {"CONNECTING", "OPEN"}
        /\ NApply(NSetState(NCur, i, "UNSTABLE"), "unstable", i, "")

NLeafStable ==
    \E i \in Leaves :
        /\ nest.obj[i].active /\ nest.obj[i].state = "UNSTABLE"
        /\ NApply(NSetState(NCur, i, "OPEN"), "stable", i, "")

NLeafClosed ==
    \E i \in Leaves, status \in StatusCodes :
        /\ nest.obj[i].active
        /\ NApply(NCloseTunnel(NCur, i, status), "closed", i, status)

NNext ==
    \/ NConnectCall
    \/ NDisconnectCall
    \/ NSendMessageCall
    \/ NLeafHandshake
    \/ NLeafInstruction
    \/ NLeafUnstable
    \/ NLeafStable
    \/ NLeafClosed

SpecNested == NInit /\ [][NNext]_vars

\* ------------------------------------------------ read requests: actions
RCur == rd @@ [events |-> <<>>]

InstructionsOf(ev) == SelectSeq(ev, LAMBDA e : e[1] = "oninstruction")

\* last is the request and the position of the last instruction delivered
RApply(r, name, n) ==
    LET del == InstructionsOf(r.events)
    IN  /\ r.request_id <= MaxReq
        /\ rd' = [state |-> r.state, polling |-> r.polling,
                  request_id |-> r.request_id, made |-> r.made, req |-> r.req,
                  last |-> IF del = <<>> THEN rd.last
                           ELSE <<del[Len(del)][2], del[Len(del)][3]>>]
        /\ robs' = [op |-> name, actor |-> n, events |-> r.events]
        /\ UNCHANGED <<tvars, cvars, nvars, pvars>>

RInit ==
    /\ Init
    /\ kind = "http"

\* what arrives for a request in one event: nothing follows a zero-length
\* element in a response
Arrivals == {<<>>} \cup {<<x>> : x \in Tokens} \cup {<<"instr", x>> : x \in Tokens}

\* the statuses of a read request: 200, 0, and the codes of two errors, the
\* one close_tunnel() never reports once connected and one it reports
ReadStatuses == {"ok", "cancel", "RESOURCE_NOT_FOUND", "SERVER_ERROR"}

\* request n moves on: its readyState rises, its status becomes known,
\* more of its response arrives; its onreadystatechange runs if it has one
RProgress ==
    \E n \in 0..(MaxReq - 1), newrs \in 2..4, newst \in ReadStatuses,
       more \in Arrivals :
        LET q == rd.req[n]
        IN  /\ q.made /\ q.rs \in 1..3
            /\ newrs = q.rs + 1 \/ (newrs = 3 /\ q.rs = 3) \/ (newrs = 4 /\ q.rs = 2)
            /\ q.rs >= 2 => newst = q.st
            /\ more # <<>> => (newrs \in {3, 4} /\ newst = "ok")
            /\ Len(q.text) + Len(more) <= MaxText
            /\ q.text # <<>> => ~ZeroLength(q.text[Len(q.text)])
            /\ RApply(RReadyStateChange([RCur EXCEPT !.req[n].rs = newrs,
                                                     !.req[n].st = newst,
                                                     !.req[n].text = @ \o more], n),
                      "progress", n)

\* the polling interval of the handler of request n fires
RPoll ==
    \E n \in 0..(MaxReq - 1) :
        /\ rd.req[n].ivOn
        /\ RApply(RParseResponse(RCur, n), "poll", n)

\* tunnel.disconnect()
RDisconnect ==
    /\ rd.state # "CLOSED"
    /\ RApply(RClose(RCur, "SUCCESS"), "disconnect", -1)

RNext == RProgress \/ RPoll \/ RDisconnect

SpecRead == RInit /\ [][RNext]_vars

\* ------------------------------------------------- WebSocket frame: actions
FrameChars == {"0", "1", "a", ".", ",", ";"}

\* every text of up to n characters
RECURSIVE Texts(_)
Texts(n) ==
    IF n = 0 THEN {<<>>}
    ELSE LET shorter == Texts(n - 1)
         IN  shorter \cup {Append(t, c) : t \in {x \in shorter : Len(x) = n - 1},
                                          c \in FrameChars}

\* a frame of any text arrives at an open socket, before or after the
\* first instruction
FInit ==
    /\ kind = "ws"
    /\ NewInstance
    /\ chain = NewChain([i \in 1..NumTunnels |-> "generic"])
    /\ cobs = NoCall
    /\ nest = NewNest
    /\ nobs = NoNestCall
    /\ rd = FirstRead
    /\ robs = NoRead
    /\ fobs = <<>>
    /\ hp = NoResponse
    /\ \E message \in Texts(MaxFrame), first \in BOOLEAN :
         fr = FOnMessage(IF first THEN "CONNECTING" ELSE "OPEN", ~first, message)

\* (a loop that never ends and adds an element with every iteration is
\* followed up to MaxElements elements)
FIterate ==
    /\ fr.looping /\ Len(fr.elements) < MaxElements
    /\ LET w == FIteration(fr @@ [events |-> <<>>])
       IN  /\ fr' = [f \in DOMAIN fr |-> w[f]]
           /\ fobs' = w.events
    /\ UNCHANGED <<tvars, cvars, nvars, rvars, hp>>

SpecFrame == FInit /\ [][FIterate]_vars

\* --------------------------------------------- framed, then parsed: actions
ContentChars == {"a", "1", ".", ",", ";"}

\* every string of up to n characters of an element
RECURSIVE Strings(_)
Strings(n) ==
    IF n = 0 THEN {<<>>}
    ELSE LET shorter == Strings(n - 1)
         IN  shorter \cup {Append(t, c) : t \in {x \in shorter : Len(x) = n - 1},
                                          c \in ContentChars}

\* every list of up to n strings
RECURSIVE Lists(_)
Lists(n) ==
    IF n = 0 THEN {<<>>}
    ELSE LET shorter == Lists(n - 1)
         IN  shorter \cup {Append(l, x) : l \in {y \in shorter : Len(y) = n - 1},
                                          x \in Strings(MaxStr)}

\* sendMessage(opcode, args...) framed a message; it is the text of a
\* response of an HTTPTunnel and the frame of a WebSocketTunnel
RtInit ==
    /\ kind = "http"
    /\ NewInstance
    /\ chain = NewChain([i \in 1..NumTunnels |-> "generic"])
    /\ cobs = NoCall
    /\ nest = NewNest
    /\ nobs = NoNestCall
    /\ rd = FirstRead
    /\ robs = NoRead
    /\ fobs = <<>>
    /\ \E opcode \in Strings(MaxStr), args \in Lists(MaxArgs) :
         LET elements == <<opcode>> \o args
         IN  /\ hp = [NoResponse EXCEPT !.rest = Message(elements), !.sent = elements]
             /\ fr = FOnMessage("OPEN", TRUE, Message(elements))

\* the whole text arrives and parseResponse() runs
HReceiveAll ==
    /\ hp.rest # <<>>
    /\ hp' = [HReceive(hp, hp.rest) EXCEPT !.rest = <<>>]
    /\ UNCHANGED <<tvars, cvars, nvars, rvars, fr, fobs>>

SpecRoundTrip == RtInit /\ [][HReceiveAll \/ FIterate]_vars

\* ------------------------------------------- response in pieces: actions
\* a string long enough for a length of two digits
LongString == [k \in 1..10 |-> "a"]

\* opcode, or opcode and one argument, of at most one character or long
ShortStrings == Strings(1) \cup {LongString}
ShortInstructions ==
    {<<o>> : o \in ShortStrings} \cup {<<o, a>> : o \in ShortStrings, a \in ShortStrings}

\* a response: two framed instructions, or any text
ResponseTexts ==
    {Message(a) \o Message(b) : a \in ShortInstructions, b \in ShortInstructions}
        \cup Texts(MaxFrame)

ChInit ==
    /\ kind = "http"
    /\ NewInstance
    /\ chain = NewChain([i \in 1..NumTunnels |-> "generic"])
    /\ cobs = NoCall
    /\ nest = NewNest
    /\ nobs = NoNestCall
    /\ rd = FirstRead
    /\ robs = NoRead
    /\ fr = NoFrame
    /\ fobs = <<>>
    /\ \E text \in ResponseTexts : hp = [NoResponse EXCEPT !.rest = text]

\* some more of the response arrives, or none (a tick of the polling
\* interval), and parseResponse() runs
HReceiveSome ==
    /\ \E n \in 0..Len(hp.rest) :
         hp' = [HReceive(hp, SubSeq(hp.rest, 1, n)) EXCEPT
                   !.rest = SubSeq(hp.rest, n + 1, Len(hp.rest))]
    /\ UNCHANGED <<tvars, cvars, nvars, rvars, fr, fobs>>

SpecChunks == ChInit /\ [][HReceiveSome]_vars

TypeOK ==
    /\ tunnel.state \in {"CONNECTING", "OPEN", "UNSTABLE", "CLOSED"}
    /\ priv.recvT \in -1..ReceiveTimeout /\ priv.unstT \in -1..UnstableThreshold
    /\ priv.writes \in 0..MaxWrites /\ Len(priv.outBuf) <= MaxBuf
    /\ priv.request_id \in 0..MaxReq

\* ===================================================================== claims

IsStateChange(e) == e[1] = "onstatechange"
IsError(e) == e[1] = "onerror"
Count(ev, e) == Len(SelectSeq(ev, LAMBDA x : x = e))

\* the states a step goes through: the state before it, then every state
\* setState changed to while the handler ran
StateTrace(pre, ev) ==
    LET ch == SelectSeq(ev, IsStateChange)
    IN  <<pre>> \o [k \in 1..Len(ch) |-> ch[k][2]]

Timed == kind \in {"http", "ws"}

\* C1: once an HTTPTunnel or WebSocketTunnel is CLOSED, no event other than
\* a new connect() changes its state to anything else.
C1_ClosedIsTerminal ==
    [][ (Timed /\ obs'.op # "connect") =>
          LET tr == StateTrace(tunnel.state, obs'.events)
          IN  \A k \in 1..(Len(tr) - 1) : tr[k] # "CLOSED" ]_vars

AllowedTransitions ==
    { <<"CONNECTING", "OPEN">>, <<"OPEN", "UNSTABLE">>, <<"UNSTABLE", "OPEN">>,
      <<"CONNECTING", "CLOSED">>, <<"OPEN", "CLOSED">>, <<"UNSTABLE", "CLOSED">> }

\* C2: every state change of an HTTPTunnel or WebSocketTunnel is
\* CONNECTING->OPEN, OPEN->UNSTABLE, UNSTABLE->OPEN or ->CLOSED; the
\* instability timer never takes a CONNECTING tunnel to UNSTABLE.
C2_OnlyForwardTransitions ==
    [][ (Timed /\ obs'.op # "connect") =>
          LET tr == StateTrace(tunnel.state, obs'.events)
          IN  \A k \in 1..(Len(tr) - 1) : <<tr[k], tr[k + 1]>> \in AllowedTransitions ]_vars

\* C3: a handshake of an HTTPTunnel that succeeds after disconnect() was
\* called has no effect: the state stays CLOSED, onuuid is not fired, no
\* keep-alive interval is started and no read request is issued.
C3_DisconnectCancelsHandshake ==
    [][ ( /\ kind = "http" /\ obs.op = "disconnect" /\ priv.hs = "pending"
          /\ obs'.op = "handshake" /\ obs'.arg = "SUCCESS" )
        => ( /\ tunnel'.state = "CLOSED"
             /\ \A k \in 1..Len(obs'.events) : obs'.events[k][1] # "onuuid"
             /\ ~priv'.ping
             /\ priv'.request_id = priv.request_id ) ]_vars

\* C4: disconnect() in any state, a freshly constructed instance included,
\* raises no exception and leaves the transport CLOSED.
C4_DisconnectNeverThrows ==
    obs.op = "disconnect" => (~obs.threw /\ tunnel.state = "CLOSED")

\* the status a closing operation hands to close_tunnel
CloseStatus(o) ==
    IF o.op = "disconnect" THEN "SUCCESS"
    ELSE IF o.op = "receive_timeout" THEN "UPSTREAM_TIMEOUT"
    ELSE o.arg

\* operations that do nothing but clear timers and call close_tunnel once a
\* tunnel is CLOSED: disconnect, the socket's close event, a failed
\* handshake, a failed write (and the receive timeout, named separately)
OnlyCloses(o) ==
    \/ o.op \in {"disconnect", "onclose"}
    \/ o.op \in {"handshake", "write"} /\ o.arg # "SUCCESS"

\* C5: the first disconnect() of a tunnel that is not CLOSED fires exactly
\* one onstatechange(CLOSED) and no onerror; a disconnect() of a CLOSED
\* tunnel, and any other close of a CLOSED tunnel, fires no callback.
C5_CloseIsIdempotent ==
    [][ /\ (obs'.op = "disconnect" /\ tunnel.state # "CLOSED") =>
              /\ Count(obs'.events, <<"onstatechange", "CLOSED">>) = 1
              /\ SelectSeq(obs'.events, IsError) = <<>>
              /\ tunnel'.state = "CLOSED"
        /\ ((OnlyCloses(obs') \/ obs'.op = "receive_timeout") /\ tunnel.state = "CLOSED") =>
              /\ obs'.events = <<>>
              /\ tunnel'.state = "CLOSED" ]_vars

\* C5 witness: a disconnect() of a tunnel that had been OPEN and was already
\* CLOSED has fired nothing
C5_Witness ==
    /\ obs.op = "disconnect" /\ obs.events = <<>> /\ tunnel.state = "CLOSED"
    /\ clock.everOpen

\* C6: while an HTTPTunnel or WebSocketTunnel is CLOSED, neither timer and
\* no keep-alive interval is pending.
C6_NoTimerWhileClosed ==
    (Timed /\ tunnel.state = "CLOSED") =>
        (priv.recvT = -1 /\ priv.unstT = -1 /\ ~priv.ping)

\* C7: a connected HTTPTunnel or WebSocketTunnel that has received no data
\* for receiveTimeout is closed: no tunnel that is not CLOSED has gone
\* without data for longer.
C7_ReceiveTimeoutCloses ==
    (Timed /\ Started /\ tunnel.state # "CLOSED") => clock.sinceData <= ReceiveTimeout

\* C8: an OPEN HTTPTunnel or WebSocketTunnel that has received no data for
\* unstableThreshold becomes UNSTABLE: no tunnel is OPEN after going
\* without data for longer.
C8_UnstableAfterThreshold ==
    (Timed /\ tunnel.state = "OPEN") => clock.sinceData <= UnstableThreshold

\* C9: closing a tunnel that is not CLOSED with status S invokes onerror(S)
\* exactly once, unless S is SUCCESS or, for HTTPTunnel, S is
\* RESOURCE_NOT_FOUND and the tunnel had reached OPEN.
C9_ErrorReportedOnce ==
    [][ ( /\ Timed /\ tunnel.state # "CLOSED"
          /\ (OnlyCloses(obs') \/ obs'.op = "receive_timeout") )
        => LET S == CloseStatus(obs')
               silent == \/ S = "SUCCESS"
                         \/ kind = "http" /\ S = "RESOURCE_NOT_FOUND" /\ clock'.everOpen
           IN  /\ Count(obs'.events, <<"onerror", S>>) = IF silent THEN 0 ELSE 1
               /\ Len(SelectSeq(obs'.events, IsError)) = IF silent THEN 0 ELSE 1 ]_vars

\* the callback slots attach() wraps, and the slots commit_tunnel() rewires
Wrapped(c) ==
    c.onstatechange = "wrapped" /\ c.oninstruction = "wrapped" /\ c.onerror = "wrapped"

Rewired(c) ==
    /\ c.onstatechange = "chain" /\ c.oninstruction = "chain"
    /\ c.onerror = "chain" /\ c.onuuid = "chain"

\* the uuid tunnel i has when the step commits it
UuidAtCommit(i) ==
    IF cobs'.op = "handshake" /\ chain.cand[i].state # "UNSTABLE"
    THEN cobs'.arg
    ELSE chain.cand[i].uuid

\* C10: when the attached, uncommitted candidate of a ChainedTunnel reaches
\* OPEN or delivers an instruction it becomes the committed tunnel and the
\* chain adopts the UUID it has; from then on a close of the committed tunnel,
\* with or without an error, reaches the chain's own callbacks and attaches
\* no other candidate.
C10_CommitRule ==
    [][ \A i \in 1..NumTunnels :
          /\ ( /\ chain.attached = i /\ chain.committed = 0 /\ cobs'.actor = i
               /\ \/ cobs'.op = "instruction"
                  \/ chain.cand[i].state # "OPEN" /\ chain'.cand[i].state = "OPEN" )
             => /\ chain'.committed = i
                /\ Rewired(chain'.cand[i])
                /\ UuidAtCommit(i) # NoUUID => chain'.uuid = UuidAtCommit(i)
          /\ ( /\ chain.committed = i /\ cobs'.actor = i
               /\ cobs'.op \in {"closed", "disconnect"}
               /\ chain.cand[i].state # "CLOSED" )
             => /\ chain'.attached = chain.attached
                /\ chain'.tunnels = chain.tunnels
                /\ chain'.committed = i
                /\ Count(cobs'.events, <<"onstatechange", "CLOSED">>) = 1
                /\ cobs'.arg \in ErrorCodes =>
                      Count(cobs'.events, <<"onerror", cobs'.arg>>) = 1 ]_vars

\* the attached tunnel i, not committed, is closed by the step with the
\* status the step names
ClosesUncommitted(i) ==
    /\ chain.attached = i /\ chain.committed = 0 /\ Wrapped(chain.cand[i])
    /\ cobs'.actor = i /\ cobs'.op = "closed"
    /\ chain.cand[i].state # "CLOSED" /\ chain'.cand[i].state = "CLOSED"
    /\ chain'.committed # i

\* C11: when the attached, uncommitted candidate closes with a status other
\* than UPSTREAM_TIMEOUT and candidates remain, the next candidate alone is
\* attached, connect() is called on it alone with the chain's connect data
\* and the chain's callbacks are not invoked; when none remains the chain's
\* onerror (for an error status) and onstatechange(CLOSED) are invoked once.
C11_FailoverRule ==
    [][ \A i \in 1..NumTunnels :
          (ClosesUncommitted(i) /\ cobs'.arg # "UPSTREAM_TIMEOUT") =>
             IF chain.tunnels # <<>>
             THEN /\ chain'.attached = Head(chain.tunnels)
                  /\ chain'.tunnels = Tail(chain.tunnels)
                  /\ cobs'.calls = << <<Head(chain.tunnels), chain.data>> >>
                  /\ cobs'.events = <<>>
             ELSE /\ cobs'.calls = <<>>
                  /\ chain'.attached = i
                  /\ Count(cobs'.events, <<"onstatechange", "CLOSED">>) = 1
                  /\ Len(SelectSeq(cobs'.events, IsError))
                        = IF cobs'.arg \in ErrorCodes THEN 1 ELSE 0
                  /\ cobs'.arg \in ErrorCodes =>
                        Count(cobs'.events, <<"onerror", cobs'.arg>>) = 1 ]_vars

C13_CommittedIsReused ==
    [][ chain.committed # 0 =>
          /\ chain'.committed = chain.committed
          /\ chain'.attached \in {chain.attached, chain.committed}
          /\ \A k \in 1..Len(cobs'.calls) : cobs'.calls[k][1] = chain.committed
          /\ cobs'.op = "connect" =>
                cobs'.calls = << <<chain.committed, cobs'.arg>> >> ]_vars

\* C14: disconnect() and sendMessage() called on a chain run the disconnect
\* and sendMessage of the tunnel last attached, also when that tunnel is a
\* ChainedTunnel, and disconnect() leaves the state that tunnel's own
\* disconnect() leaves; before any attach they run nothing and change nothing.
C14_DelegatesToAttached ==
    [][ nobs'.op \in {"disconnect", "sendMessage"} =>
          LET a == nest.obj[Outer].attached
          IN  IF a = 0 THEN nobs'.ran = 0 /\ nest' = nest
              ELSE /\ nobs'.ran = nest.obj[a].methods
                   /\ nobs'.op = "disconnect" =>
                         nest' = [obj |-> NDisconnect(NCur, a).obj] ]_vars

\* the instructions delivered by the step, as <<request, position>>, after
\* the last one delivered before it
DeliveredAfterLast ==
    LET del == InstructionsOf(robs'.events)
    IN  <<rd.last>> \o [j \in 1..Len(del) |-> <<del[j][2], del[j][3]>>]

\* request m has a zero-length element right after its first p instructions
\* and its handler has been removed
EndProcessed(m, p) ==
    LET q == rd'.req[m]
    IN  Len(q.text) > p /\ ZeroLength(q.text[p + 1]) /\ q.hdl = "none"

\* C15: an HTTPTunnel delivers instructions in the order of the wire across
\* read requests: an instruction delivered after another is either the next
\* one of the same response, or the first one of a later request, and then
\* the zero-length marker that follows the earlier instruction in its
\* response has been processed (as has the marker of every request in
\* between); so no instruction of request n+1 is delivered before the
\* marker of request n, and none of request n after one of request n+1.
C15_WireOrder ==
    [][ \A j \in 1..(Len(DeliveredAfterLast) - 1) :
          LET a == DeliveredAfterLast[j]
              b == DeliveredAfterLast[j + 1]
          IN  \/ b[1] = a[1] /\ b[2] = a[2] + 1
              \/ /\ b[1] > a[1] /\ b[2] = 1
                 /\ \A m \in a[1]..(b[1] - 1) :
                        EndProcessed(m, IF m = a[1] THEN a[2] ELSE 0) ]_vars

\* the marker of request 0 is processed when request 1 has already streamed
\* an instruction: the last instruction of request 0 and the first of
\* request 1 are delivered by the same event
C15_Witness ==
    \E j \in 1..(Len(robs.events) - 1) :
        /\ robs.events[j][1] = "oninstruction" /\ robs.events[j][2] = 0
        /\ robs.events[j + 1] = <<"oninstruction", 1, 1>>

\* C16: an HTTPTunnel never has more than one write request in flight, and
\* sendingMessages is true exactly while one is.
C16_SingleWriter ==
    kind = "http" => (priv.writes <= 1 /\ (priv.sending <=> priv.writes = 1))

\* the write bodies of the step, one after the other
RECURSIVE Concat(_)
Concat(ss) == IF ss = <<>> THEN <<>> ELSE Head(ss) \o Concat(Tail(ss))

\* the message the step's sendMessage call was accepted with, if any
AcceptedByStep ==
    IF kind = "http" /\ IsConnected(tunnel)
    THEN IF obs'.op = "sendMessage" THEN <<"msg">>
         ELSE IF obs'.op = "sendPing" THEN <<"nop">>
         ELSE <<>>
    ELSE <<>>

C18_UuidIsStable ==
    [][ (chain.uuid # NoUUID /\ chain.state # "CLOSED") =>
            chain'.uuid = chain.uuid ]_vars

\* C19: in a WebSocketTunnel only the first instruction received can assign
\* the UUID: a frame that arrives after the frame with the first
\* instruction leaves the uuid as it is and calls no onuuid.
C19_OnlyFirstInstructionAssigns ==
    [][ (kind = "ws" /\ obs'.op = "onmessage" /\ clock.gotFirst) =>
          /\ tunnel'.uuid = tunnel.uuid
          /\ \A k \in 1..Len(obs'.events) : obs'.events[k][1] # "onuuid" ]_vars

\* C20: neither a WebSocketTunnel nor a StaticHTTPTunnel passes an
\* instruction with the empty opcode to the application's oninstruction.
C20_NoEmptyOpcodeDelivered ==
    kind \in {"ws", "static"} =>
        \A k \in 1..Len(obs.events) : obs.events[k] # <<"oninstruction", "">>

\* C21: an HTTPTunnel whose handshake reply has the status 200 but no session
\* token fails the connect attempt: the tunnel is CLOSED after the reply
\* and was not OPEN on the way, onerror is called once, with
\* UPSTREAM_NOT_FOUND, no ping interval is started and no read request made.
\* (The reply of an attempt the application has not disconnected.)
C21_NoTokenFailsConnect ==
    [][ (kind = "http" /\ obs'.op = "handshake" /\ obs'.arg = "SUCCESS"
            /\ ~priv'.token /\ tunnel.state # "CLOSED") =>
          /\ tunnel'.state = "CLOSED"
          /\ \A k \in 1..Len(obs'.events) :
                 obs'.events[k] # <<"onstatechange", "OPEN">>
          /\ SelectSeq(obs'.events, LAMBDA e : e[1] = "onerror")
                 = << <<"onerror", "UPSTREAM_NOT_FOUND">> >>
          /\ ~priv'.ping
          /\ priv'.request_id = priv.request_id ]_vars

\* C22: when the text left in a WebSocket frame has no '.', the tunnel
\* reports SERVER_ERROR and closes, and nothing of that text becomes an
\* instruction: the iteration that finds no '.' calls onerror(SERVER_ERROR)
\* unless the tunnel is closed already, leaves the tunnel CLOSED and passes
\* nothing to oninstruction.
C22_MalformedFrameIsError ==
    [][ IndexOf(fr.msg, ".", fr.startIndex) = NotFound =>
          /\ fr'.state = "CLOSED"
          /\ fr.state # "CLOSED" =>
                \E k \in 1..Len(fobs') : fobs'[k] = <<"onerror", "SERVER_ERROR">>
          /\ \A k \in 1..Len(fobs') : fobs'[k][1] # "oninstruction" ]_vars

\* the instruction sendMessage was called with
SentInstruction == <<Head(hp.sent), Tail(hp.sent)>>

\* C23: what sendMessage frames, both parsers read back as exactly one
\* instruction with the same opcode and the same arguments: parseResponse()
\* on the whole text passes that one instruction to oninstruction, and the
\* onmessage loop passes it in its last iteration and nothing before.
\* (For an opcode that is not the empty string, which onmessage keeps.)
C23_RoundTrip ==
    [][ SentInstruction[1] # <<>> =>
          /\ (hp.rest # <<>> /\ hp'.rest = <<>>) => hp'.log = <<SentInstruction>>
          /\ fr' # fr =>
                SelectSeq(fobs', LAMBDA e : e[1] = "oninstruction")
                   = IF fr'.looping THEN <<>>
                     ELSE << <<"oninstruction", SentInstruction[1],
                               SentInstruction[2]>> >>
      ]_vars

\* C24: however the text of a response is cut into pieces, parseResponse()
\* called as each piece arrives has passed to oninstruction exactly the
\* instructions that one call on the text received so far passes, in the
\* same order; so at the end it has passed what one call on the complete
\* text passes, and an instruction is passed only once its text is complete.
C24_ChunkInvariance ==
    hp.log = HParseLoop([NoResponse EXCEPT !.text = hp.text]).log

\* the first instruction has been passed on, the text received so far ends
\* inside the second one, and more is to come
C24_Witness ==
    /\ Len(hp.log) = 1 /\ hp.elements # <<>> /\ hp.rest # <<>>
    /\ ~hp.ended


IsPrefix(a, b) == Len(a) <= Len(b) /\ SubSeq(b, 1, Len(a)) = a

\* C25: StaticHTTPTunnel: within one connection the text given to
\* parser.receive, chunk after chunk, is a prefix of the response text received
\* so far, and it is the whole response text once the transfer has completed:
\* nothing is skipped and nothing is given twice.
C25_EveryByteOnce ==
    kind = "static" =>
        /\ priv.xhr = "active" => IsPrefix(clock.fed, priv.xtext)
        /\ (obs.op = "ready" /\ priv.xhr = "null") => clock.fed = priv.xtext

\* a transfer completed whose text came with more than one event
C25_Witness ==
    /\ kind = "static" /\ obs.op = "ready" /\ priv.xhr = "null"
    /\ Len(clock.fed) >= 2
    /\ Len(SelectSeq(obs.events, LAMBDA e : e[1] = "oninstruction")) = 1


\* C26: StaticHTTPTunnel: connect() leaves the tunnel CONNECTING with a new
\* transfer, the previous one disconnected; an event that shows response data
\* arriving leaves it OPEN, or CLOSED when the transfer is complete; a
\* transport error leaves it CLOSED after exactly one onerror, and no handler
\* raises an exception.
C26_StaticLifecycle ==
    [][ kind = "static" =>
          /\ obs'.op = "connect" =>
                /\ tunnel'.state = "CONNECTING" /\ priv'.xhr = "active"
                /\ priv'.offset = 0 /\ clock'.fed = <<>>
          /\ (obs'.op = "ready" /\ priv'.xrs = 3) => tunnel'.state = "OPEN"
          /\ (obs'.op = "ready" /\ priv.xhr = "active" /\ priv'.xhr = "null") =>
                tunnel'.state = "CLOSED"
          /\ obs'.op = "error" =>
                /\ tunnel'.state = "CLOSED"
                /\ Len(SelectSeq(obs'.events, LAMBDA e : e[1] = "onerror")) = 1
                /\ obs'.arg \in {e[2] : e \in {obs'.events[k] : k \in DOMAIN obs'.events}}
          /\ ~obs'.threw ]_vars


\* the read requests sent and neither complete nor aborted
Outstanding == {n \in 0..MaxReq : rd.req[n].made /\ rd.req[n].rs \in 1..3}

\* C27: HTTPTunnel: the requests a step makes take the numbers that follow
\* those already used, in the order they are made; the handler of a response
\* sets its nextRequest only while the status of the response is 200 and never
\* replaces it; and at most two read requests are outstanding after any step.
C27_ReadPipeline ==
    [][ /\ rd'.request_id >= rd.request_id
        /\ {n \in 0..MaxReq : rd'.req[n].made} = 0..(rd'.request_id - 1)
        /\ \A n \in 0..MaxReq :
             /\ rd.req[n].made => rd'.req[n].made
             /\ rd'.req[n].next # rd.req[n].next =>
                   /\ rd.req[n].next = -1 /\ rd'.req[n].st = "ok"
                   /\ rd'.req[n].next >= rd.request_id /\ rd'.req[n].next > n
                   /\ rd'.req[rd'.req[n].next].made
        /\ Cardinality({n \in 0..MaxReq : rd'.req[n].made /\ rd'.req[n].rs \in 1..3}) <= 2
      ]_vars

\* the second response is being read, the third request is made, and the
\* first request is no longer outstanding
C27_Witness ==
    /\ Outstanding = {1, 2}
    /\ rd.req[1].next = 2 /\ rd.req[1].rs = 3 /\ rd.req[0].next = 1


\* C28: HTTPTunnel: once polling has been disabled (a response has had two
\* readystatechange events at readyState 3) it stays disabled, no handler
\* creates a polling interval any more, and an interval created before fires
\* only while the response of its handler is still being received.
C28_PollingStaysOff ==
    [][ ~rd.polling =>
          /\ ~rd'.polling
          /\ \A n \in 0..MaxReq : rd'.req[n].ivSet => rd.req[n].ivSet
          /\ robs'.op = "poll" => rd.req[robs'.actor].rs \in 1..3 ]_vars


\* C29: HTTPTunnel: a tick of the polling interval that finds no new bytes in
\* the response leaves the receive timeout and the instability timer as they
\* were, and with them the state: only an event that received data gives
\* the timers their full duration again.
C29_StalePollKeepsTimers ==
    [][ /\ (kind = "http" /\ obs'.op = "poll" /\ obs'.arg = "stale") =>
              /\ priv'.recvT = priv.recvT /\ priv'.unstT = priv.unstT
              /\ tunnel'.state = tunnel.state
        /\ (kind = "http" /\ ( priv'.recvT > priv.recvT \/ priv'.unstT > priv.unstT )) =>
              clock'.sinceData = 0 ]_vars


\* where in the callbacks of a step onstatechange(CLOSED) is, 0 if nowhere
ClosedAt(ev) ==
    LET at == {k \in DOMAIN ev : ev[k][1] = "onstatechange" /\ ev[k][2] = "CLOSED"}
    IN  IF at = {} THEN 0 ELSE CHOOSE k \in at : \A m \in at : k <= m

\* C30: HTTPTunnel and WebSocketTunnel: no event delivers an instruction to
\* oninstruction once the tunnel is CLOSED: none while the state is CLOSED
\* when the event begins, and none after the onstatechange(CLOSED) that the
\* event itself fires.
C30_NothingDeliveredAfterClose ==
    [][ (kind = "http" \/ kind = "ws") =>
          ( /\ tunnel.state = "CLOSED" => InstructionsOf(obs'.events) = <<>>
            /\ ClosedAt(obs'.events) # 0 =>
                  InstructionsOf(SubSeq(obs'.events, ClosedAt(obs'.events),
                                        Len(obs'.events))) = <<>> ) ]_vars


\* C31: WebSocketTunnel: the parse loop of onmessage is left after finitely
\* many iterations, whatever the text of the frame.  What an iteration does
\* is a function of the loop's variables and the tunnel's state, so a loop
\* that ends has no iteration that leaves all of them as it found them while
\* its condition still holds.
C31_FrameLoopTerminates ==
    [][ fr.looping => fr' # fr ]_vars


\* C32: ChainedTunnel: connect(data) on a chain that has committed no tunnel
\* attaches the first remaining candidate and nothing more: connect() is
\* called on that candidate alone, it is the attached tunnel when the call
\* returns, and the chain's onstatechange is not invoked with CLOSED, whatever
\* the candidate does to its own state inside its connect(); and never do two
\* candidates have a connection under way.
C32_AttachIsNotFailure ==
    [][ /\ (cobs'.op = "connect" /\ chain.committed = 0 /\ chain.tunnels # <<>>) =>
              /\ chain'.attached = Head(chain.tunnels)
              /\ cobs'.calls = << <<Head(chain.tunnels), cobs'.arg>> >>
              /\ Count(cobs'.events, <<"onstatechange", "CLOSED">>) = 0
        /\ chain.attached = 0 =>
              Cardinality({i \in 1..NumTunnels : chain'.cand[i].active}) <= 1 ]_vars


====
